---- MODULE Spec2Model ----
(***************************************************************************)
(* Model of the financial projection engine of                             *)
(* strategic_foundation/business_case_generator.py                         *)
(* (BusinessCaseGenerator._calculate_financial_projection and              *)
(* _calculate_irr).                                                        *)
(*                                                                         *)
(* Python floats are modelled as exact rationals <<n, d>> in lowest terms  *)
(* with d > 0, so equal numbers are equal tuples.  The one irrational      *)
(* operation, the fifth root of _calculate_irr, is computed to a           *)
(* resolution of 1/IrrScale (rounded down).                                *)
(***************************************************************************)
EXTENDS Integers, Sequences, FiniteSets, TLC

\* ------------------------------------------------------------------------
\* Bounds of the model
\* ------------------------------------------------------------------------

\* longest list of investments, and of benefits, handed to the engine
MaxItems == 2

\* the fifth root is computed in steps of 1/IrrScale
IrrScale == 10

\* ------------------------------------------------------------------------
\* Exact rational arithmetic (the model of float arithmetic)
\* ------------------------------------------------------------------------

Abs(n) == IF n < 0 THEN -n ELSE n

RECURSIVE GCD(_, _)
GCD(a, b) == IF b = 0 THEN a ELSE GCD(b, a % b)

Norm(n, d) ==
    LET g == GCD(Abs(n), Abs(d))
        s == IF d < 0 THEN -1 ELSE 1
    IN  <<(s * n) \div g, (s * d) \div g>>

R(n) == <<n, 1>>
Zero == R(0)
One == R(1)

LCM(a, b) == (a \div GCD(a, b)) * b

RAdd(x, y) ==
    LET l == LCM(x[2], y[2])
    IN  Norm(x[1] * (l \div x[2]) + y[1] * (l \div y[2]), l)

RNeg(x) == <<-x[1], x[2]>>

RSub(x, y) == RAdd(x, RNeg(y))

RMul(x, y) ==
    LET g1 == GCD(Abs(x[1]), y[2])
        g2 == GCD(Abs(y[1]), x[2])
        h1 == IF g1 = 0 THEN 1 ELSE g1
        h2 == IF g2 = 0 THEN 1 ELSE g2
    IN  Norm((x[1] \div h1) * (y[1] \div h2), (x[2] \div h2) * (y[2] \div h1))

\* x / y for y # 0
RDiv(x, y) == RMul(x, Norm(y[2], y[1]))

RECURSIVE RPow(_, _)
RPow(x, k) == IF k = 0 THEN One ELSE RMul(x, RPow(x, k - 1))

RFloor(x) == x[1] \div x[2]

\* x < y, by integer parts and then the reciprocals of the fractional parts
RECURSIVE RLt(_, _)
RLt(x, y) ==
    LET fx == RFloor(x)
        fy == RFloor(y)
        a == x[1] - fx * x[2]
        c == y[1] - fy * y[2]
    IN  IF fx # fy THEN fx < fy
        ELSE IF c = 0 THEN FALSE
        ELSE IF a = 0 THEN TRUE
        ELSE RLt(<<y[2], c>>, <<x[2], a>>)

RLe(x, y) == ~RLt(y, x)

RMin(x, y) == IF RLt(y, x) THEN y ELSE x
RMax(x, y) == IF RLt(x, y) THEN y ELSE x

RECURSIVE RSum(_)
RSum(s) == IF s = <<>> THEN Zero ELSE RAdd(Head(s), RSum(Tail(s)))

\* ------------------------------------------------------------------------
\* Data model: Investment, Benefit, FinancialProjection
\* ------------------------------------------------------------------------

\* 5-year projection
years == 5

Years == 1..years

Investment(category, description, y1, y2, y3, ongoing, confidence) ==
    [category |-> category, description |-> description,
     year_1_cost |-> y1, year_2_cost |-> y2, year_3_cost |-> y3,
     ongoing_annual_cost |-> ongoing, confidence_level |-> confidence]

Benefit(category, description, y1, y2, y3, ongoing, confidence, realization) ==
    [category |-> category, description |-> description,
     year_1_value |-> y1, year_2_value |-> y2, year_3_value |-> y3,
     ongoing_annual_value |-> ongoing, confidence_level |-> confidence,
     realization_probability |-> realization]

FinancialProjection(ti, tb, npv, roi, payback, irr, cashflow) ==
    [kind |-> "returned",
     total_investment |-> ti, total_benefits |-> tb,
     net_present_value |-> npv, roi_percentage |-> roi,
     payback_period_months |-> payback, irr |-> irr,
     yearly_cashflow |-> cashflow]

\* no call has been made on the current arguments
NoProjection == [kind |-> "none"]

\* the call ended in an exception instead of returning
Raised(error) == [kind |-> "raised", error |-> error]

\* the investments a caller may put in the list: a single front-loaded cost,
\* a cost spread over all five years, and a negative cost (a saving) that
\* leaves a total of 1 next to the first
InvestmentItems ==
    { Investment("infrastructure", "AI-ready infrastructure and cloud platforms",
                 R(100), R(0), R(0), R(0), <<17, 20>>),
      Investment("talent", "AI talent acquisition and retention",
                 R(10), R(20), R(30), R(5), <<17, 20>>),
      Investment("technology", "AI software licenses and tools",
                 R(-99), R(0), R(0), R(0), One) }

\* the benefits a caller may put in the list: a discounted first-year value,
\* a full-weight value from year 2 on, a value that differs in every year,
\* and a negative value
BenefitItems ==
    { Benefit("revenue_growth", "Revenue growth",
              R(1000), R(0), R(0), R(0), <<1, 2>>, <<4, 5>>),
      Benefit("cost_reduction", "Cost reduction",
              R(0), R(40), R(40), R(40), One, One),
      Benefit("productivity_improvement", "Productivity improvement",
              R(10), R(20), R(30), R(40), <<3, 4>>, <<4, 5>>),
      Benefit("risk_mitigation", "Risk mitigation",
              R(-50), R(0), R(0), R(0), One, One) }

\* the values a caller may give generator.discount_rate
DiscountRates == { <<-3, 2>>, R(-1), Zero, <<1, 10>> }

\* ------------------------------------------------------------------------
\* BusinessCaseGenerator._calculate_irr
\* ------------------------------------------------------------------------

\* the largest k >= from with (k / IrrScale)^5 <= x, for x >= 0
RECURSIVE Root5From(_, _)
Root5From(x, from) ==
    IF RLe(RPow(<<from + 1, IrrScale>>, 5), x)
    THEN Root5From(x, from + 1)
    ELSE from

\* x ** (1/5), rounded down to a multiple of 1/IrrScale
Root5(x) == Norm(Root5From(x, 0), IrrScale)

\* the sentinel branch returns 0.0
CalculateIrrZeroSentinel(cashflows, initial_investment) ==
    IF RLe(initial_investment, Zero) THEN Zero
    ELSE LET total_return == RSum(cashflows)
         IN  IF RLe(total_return, Zero) THEN Zero
             ELSE LET irr == RSub(Root5(RDiv(total_return, initial_investment)), One)
                  IN  RMin(One, RMax(R(-1), irr))

\* the total-return check comes before the investment check
CalculateIrrReturnFirst(cashflows, initial_investment) ==
    LET total_return == RSum(cashflows)
    IN  IF RLe(total_return, Zero) THEN R(-1)
        ELSE IF RLe(initial_investment, Zero) THEN Zero
        ELSE LET irr == RSub(Root5(RDiv(total_return, initial_investment)), One)
             IN  RMin(One, RMax(R(-1), irr))

\* the result is not clamped
CalculateIrrUnclamped(cashflows, initial_investment) ==
    IF RLe(initial_investment, Zero) THEN Zero
    ELSE LET total_return == RSum(cashflows)
         IN  IF RLe(total_return, Zero) THEN R(-1)
             ELSE RSub(Root5(RDiv(total_return, initial_investment)), One)

CalculateIrr(cashflows, initial_investment) ==
    IF RLe(initial_investment, Zero) THEN Zero
    ELSE LET total_return == RSum(cashflows)
         IN  IF RLe(total_return, Zero) THEN R(-1)
             ELSE LET irr == RSub(Root5(RDiv(total_return, initial_investment)), One)
                  IN  RMin(One, RMax(R(-1), irr))

\* ------------------------------------------------------------------------
\* BusinessCaseGenerator._calculate_financial_projection
\* ------------------------------------------------------------------------

\* the ongoing cost starts one year early
InvestmentCostOngoingFromYear3(inv, year) ==
    IF year = 1 THEN inv.year_1_cost
    ELSE IF year = 2 THEN inv.year_2_cost
    ELSE inv.ongoing_annual_cost

\* what one investment adds to annual_costs[year]
InvestmentCost(inv, year) ==
    IF year = 1 THEN inv.year_1_cost
    ELSE IF year = 2 THEN inv.year_2_cost
    ELSE IF year = 3 THEN inv.year_3_cost
    ELSE inv.ongoing_annual_cost

\* the ongoing years are not weighted by confidence and realization
ExpectedBenefitRawOngoing(ben, year) ==
    IF year = 1
    THEN RMul(RMul(ben.year_1_value, ben.confidence_level), ben.realization_probability)
    ELSE IF year = 2
    THEN RMul(RMul(ben.year_2_value, ben.confidence_level), ben.realization_probability)
    ELSE IF year = 3
    THEN RMul(RMul(ben.year_3_value, ben.confidence_level), ben.realization_probability)
    ELSE ben.ongoing_annual_value

\* what one benefit adds to annual_benefits[year]
ExpectedBenefit(ben, year) ==
    LET value == IF year = 1 THEN ben.year_1_value
                 ELSE IF year = 2 THEN ben.year_2_value
                 ELSE IF year = 3 THEN ben.year_3_value
                 ELSE ben.ongoing_annual_value
    IN  RMul(RMul(value, ben.confidence_level), ben.realization_probability)

\* the loop over the investments, from annual_costs = [0.0] * years
RECURSIVE AnnualCosts(_, _)
AnnualCosts(annual_costs, investments_left) ==
    IF investments_left = <<>> THEN annual_costs
    ELSE AnnualCosts(
            [year \in Years |->
                RAdd(annual_costs[year], InvestmentCost(Head(investments_left), year))],
            Tail(investments_left))

\* the loop over the benefits, from annual_benefits = [0.0] * years
RECURSIVE AnnualBenefits(_, _)
AnnualBenefits(annual_benefits, benefits_left) ==
    IF benefits_left = <<>> THEN annual_benefits
    ELSE AnnualBenefits(
            [year \in Years |->
                RAdd(annual_benefits[year], ExpectedBenefit(Head(benefits_left), year))],
            Tail(benefits_left))

ZeroArray == [year \in Years |-> Zero]

\* costs minus benefits
CashflowCostsMinusBenefits(annual_costs, annual_benefits) ==
    [i \in Years |-> RSub(annual_costs[i], annual_benefits[i])]

Cashflow(annual_costs, annual_benefits) ==
    [i \in Years |-> RSub(annual_benefits[i], annual_costs[i])]

\* the first year is not discounted: (1 + rate) ** i
DiscountFactorFromYear0(rate, i) == RPow(RAdd(One, rate), i)

\* the discount factor (1 + rate) ** (i + 1) of the 0-based year index i
DiscountFactor(rate, i) == RPow(RAdd(One, rate), i + 1)

\* the cash flows are multiplied by the discount factor
NpvMultiplied(cashflow, rate) ==
    IF RAdd(One, rate) = Zero THEN Zero
    ELSE RSum([y \in Years |-> RMul(cashflow[y], DiscountFactor(rate, y - 1))])

\* sum(cf / ((1 + rate) ** (i + 1)) for i, cf in enumerate(cashflow));
\* cashflow[i + 1] here is cashflow[i] of the code
Npv(cashflow, rate) ==
    RSum([y \in Years |-> RDiv(cashflow[y], DiscountFactor(rate, y - 1))])

\* the guard is total_investment != 0
RoiPercentageNonZeroGuard(total_investment, total_benefits) ==
    IF total_investment # Zero
    THEN RMul(RDiv(RSub(total_benefits, total_investment), total_investment), R(100))
    ELSE Zero

RoiPercentage(total_investment, total_benefits) ==
    IF RLt(Zero, total_investment)
    THEN RMul(RDiv(RSub(total_benefits, total_investment), total_investment), R(100))
    ELSE Zero

\* the loop tests cumulative_cf > 0
RECURSIVE PaybackFromStrict(_, _, _)
PaybackFromStrict(cashflow, year, cumulative_cf) ==
    IF year >= Len(cashflow) THEN years * 12
    ELSE LET cumulative == RAdd(cumulative_cf, cashflow[year + 1])
         IN  IF RLt(Zero, cumulative) THEN (year + 1) * 12
             ELSE PaybackFromStrict(cashflow, year + 1, cumulative)

\* the payback loop from the 0-based year index `year`, cumulative_cf so far
RECURSIVE PaybackFrom(_, _, _)
PaybackFrom(cashflow, year, cumulative_cf) ==
    IF year >= Len(cashflow) THEN years * 12
    ELSE LET cumulative == RAdd(cumulative_cf, cashflow[year + 1])
         IN  IF RLe(Zero, cumulative) THEN (year + 1) * 12
             ELSE PaybackFrom(cashflow, year + 1, cumulative)

\* the month is year_index * 12
PaybackMonthsFromYearIndex(cashflow) == PaybackFrom(cashflow, 0, Zero) - 12

PaybackMonths(cashflow) == PaybackFrom(cashflow, 0, Zero)

\* total_investment counts the three explicit years only
ReturnedProjectionThreeYearInvestment(invs, bens, rate) ==
    LET annual_costs == AnnualCosts(ZeroArray, invs)
        annual_benefits == AnnualBenefits(ZeroArray, bens)
        cashflow == Cashflow(annual_costs, annual_benefits)
        total_investment == RSum(<<annual_costs[1], annual_costs[2], annual_costs[3]>>)
        total_benefits == RSum(annual_benefits)
    IN  FinancialProjection(
            total_investment,
            total_benefits,
            Npv(cashflow, rate),
            RoiPercentage(total_investment, total_benefits),
            PaybackMonths(cashflow),
            CalculateIrr(cashflow, total_investment),
            cashflow)

\* the FinancialProjection built by a call that reaches its return statement
ReturnedProjection(invs, bens, rate) ==
    LET annual_costs == AnnualCosts(ZeroArray, invs)
        annual_benefits == AnnualBenefits(ZeroArray, bens)
        cashflow == Cashflow(annual_costs, annual_benefits)
        total_investment == RSum(annual_costs)
        total_benefits == RSum(annual_benefits)
    IN  FinancialProjection(
            total_investment,
            total_benefits,
            Npv(cashflow, rate),
            RoiPercentage(total_investment, total_benefits),
            PaybackMonths(cashflow),
            CalculateIrr(cashflow, total_investment),
            cashflow)

\* a projection whose ROI division is not guarded: it divides by a
\* total_investment of 0
CalculateFinancialProjectionUnguardedRoi(invs, bens, rate) ==
    IF \/ RAdd(One, rate) = Zero
       \/ RSum(AnnualCosts(ZeroArray, invs)) = Zero
    THEN Raised("ZeroDivisionError")
    ELSE ReturnedProjection(invs, bens, rate)

\* the value the call returns, or the exception it raises: the first term of
\* the NPV sum divides by (1 + rate) ** 1, which is 0.0 at rate = -1
CalculateFinancialProjection(invs, bens, rate) ==
    IF RAdd(One, rate) = Zero
    THEN Raised("ZeroDivisionError")
    ELSE ReturnedProjection(invs, bens, rate)

\* ------------------------------------------------------------------------
\* BusinessCaseGenerator._adjust_investment, _adjust_benefit, _delay_benefit
\* ------------------------------------------------------------------------

\* the confidence_level is scaled with the costs
AdjustInvestmentScalesConfidence(investment, factor) ==
    Investment(investment.category, investment.description,
               RMul(investment.year_1_cost, factor),
               RMul(investment.year_2_cost, factor),
               RMul(investment.year_3_cost, factor),
               RMul(investment.ongoing_annual_cost, factor),
               RMul(investment.confidence_level, factor))

AdjustInvestment(investment, factor) ==
    Investment(investment.category, investment.description,
               RMul(investment.year_1_cost, factor),
               RMul(investment.year_2_cost, factor),
               RMul(investment.year_3_cost, factor),
               RMul(investment.ongoing_annual_cost, factor),
               investment.confidence_level)

AdjustBenefit(benefit, factor) ==
    Benefit(benefit.category, benefit.description,
            RMul(benefit.year_1_value, factor),
            RMul(benefit.year_2_value, factor),
            RMul(benefit.year_3_value, factor),
            RMul(benefit.ongoing_annual_value, factor),
            benefit.confidence_level,
            benefit.realization_probability)

\* the long delay adds what it moves to year 3 to the value year 3 had
DelayBenefitKeepsYear3(benefit, delay_months) ==
    IF delay_months <= 6
    THEN Benefit(benefit.category, benefit.description,
                 RMul(benefit.year_1_value, <<1, 2>>),
                 RAdd(benefit.year_2_value, RMul(benefit.year_1_value, <<1, 2>>)),
                 benefit.year_3_value,
                 benefit.ongoing_annual_value,
                 benefit.confidence_level,
                 benefit.realization_probability)
    ELSE Benefit(benefit.category, benefit.description,
                 Zero,
                 RMul(benefit.year_1_value, <<7, 10>>),
                 RAdd(benefit.year_3_value,
                      RAdd(benefit.year_2_value, RMul(benefit.year_1_value, <<3, 10>>))),
                 benefit.ongoing_annual_value,
                 RMul(benefit.confidence_level, <<9, 10>>),
                 RMul(benefit.realization_probability, <<9, 10>>))

\* year 2 is not given the half taken from year 1
DelayBenefitDropsHalf(benefit, delay_months) ==
    IF delay_months <= 6
    THEN Benefit(benefit.category, benefit.description,
                 RMul(benefit.year_1_value, <<1, 2>>),
                 benefit.year_2_value,
                 benefit.year_3_value,
                 benefit.ongoing_annual_value,
                 benefit.confidence_level,
                 benefit.realization_probability)
    ELSE Benefit(benefit.category, benefit.description,
                 Zero,
                 RMul(benefit.year_1_value, <<7, 10>>),
                 RAdd(benefit.year_2_value, RMul(benefit.year_1_value, <<3, 10>>)),
                 benefit.ongoing_annual_value,
                 RMul(benefit.confidence_level, <<9, 10>>),
                 RMul(benefit.realization_probability, <<9, 10>>))

\* the long delay leaves confidence and realization as they are
DelayBenefitKeepsConfidence(benefit, delay_months) ==
    IF delay_months <= 6
    THEN Benefit(benefit.category, benefit.description,
                 RMul(benefit.year_1_value, <<1, 2>>),
                 RAdd(benefit.year_2_value, RMul(benefit.year_1_value, <<1, 2>>)),
                 benefit.year_3_value,
                 benefit.ongoing_annual_value,
                 benefit.confidence_level,
                 benefit.realization_probability)
    ELSE Benefit(benefit.category, benefit.description,
                 Zero,
                 RMul(benefit.year_1_value, <<7, 10>>),
                 RAdd(benefit.year_2_value, RMul(benefit.year_1_value, <<3, 10>>)),
                 benefit.ongoing_annual_value,
                 benefit.confidence_level,
                 benefit.realization_probability)

DelayBenefit(benefit, delay_months) ==
    IF delay_months <= 6
    THEN Benefit(benefit.category, benefit.description,
                 RMul(benefit.year_1_value, <<1, 2>>),
                 RAdd(benefit.year_2_value, RMul(benefit.year_1_value, <<1, 2>>)),
                 benefit.year_3_value,
                 benefit.ongoing_annual_value,
                 benefit.confidence_level,
                 benefit.realization_probability)
    ELSE Benefit(benefit.category, benefit.description,
                 Zero,
                 RMul(benefit.year_1_value, <<7, 10>>),
                 RAdd(benefit.year_2_value, RMul(benefit.year_1_value, <<3, 10>>)),
                 benefit.ongoing_annual_value,
                 RMul(benefit.confidence_level, <<9, 10>>),
                 RMul(benefit.realization_probability, <<9, 10>>))

\* the factors the helpers are called with: those of the sensitivity
\* analysis, and 1.0
Factors ==
    { <<7, 10>>, <<4, 5>>, <<17, 20>>, <<9, 10>>, One,
      <<11, 10>>, <<23, 20>>, <<6, 5>>, <<13, 10>> }

\* the longest delay, in months, _delay_benefit is called with
MaxDelay == 12

Delays == -1..MaxDelay

\* ------------------------------------------------------------------------
\* BusinessCaseGenerator.perform_sensitivity_analysis
\* ------------------------------------------------------------------------

\* [self._adjust_investment(inv, factor) for inv in investments]
AdjustInvestments(invs, factor) ==
    [k \in 1..Len(invs) |-> AdjustInvestment(invs[k], factor)]

\* [self._adjust_benefit(ben, factor) for ben in benefits]
AdjustBenefits(bens, factor) ==
    [k \in 1..Len(bens) |-> AdjustBenefit(bens[k], factor)]

\* [self._delay_benefit(ben, value) for ben in benefits]
DelayBenefits(bens, delay_months) ==
    [k \in 1..Len(bens) |-> DelayBenefit(bens[k], delay_months)]

\* the entry of a named scenario: its NPV and ROI and their change against
\* the stored projection of the business case
ScenarioCase(scenario, base) ==
    [npv |-> scenario.net_present_value,
     roi |-> scenario.roi_percentage,
     npv_change |-> RSub(scenario.net_present_value, base.net_present_value),
     roi_change |-> RSub(scenario.roi_percentage, base.roi_percentage)]

\* one entry of a variable's impacts
Impact(value, test_projection, base) ==
    [test_value |-> value,
     npv_impact |-> RSub(test_projection.net_present_value, base.net_present_value),
     roi_impact |-> RSub(test_projection.roi_percentage, base.roi_percentage)]

\* the test values of the three variables
InvestmentCostValues == << <<4, 5>>, <<9, 10>>, <<11, 10>>, <<6, 5>> >>
BenefitRealizationValues == << <<7, 10>>, <<17, 20>>, <<23, 20>>, <<13, 10>> >>
\* the third delay tested is 9 months
TimelineDelayValuesNineMonths == <<0, 3, 9, 12>>

TimelineDelayValues == <<0, 3, 6, 12>>

\* the optimistic scenario benefits are scaled by 1.1
OptimisticProjectionLowBenefits(invs, bens, rate) ==
    CalculateFinancialProjection(
        AdjustInvestments(invs, <<9, 10>>), AdjustBenefits(bens, <<11, 10>>), rate)

OptimisticProjection(invs, bens, rate) ==
    CalculateFinancialProjection(
        AdjustInvestments(invs, <<9, 10>>), AdjustBenefits(bens, <<6, 5>>), rate)

\* the pessimistic scenario raises the benefits by 20%
PessimisticProjectionHighBenefits(invs, bens, rate) ==
    CalculateFinancialProjection(
        AdjustInvestments(invs, <<23, 20>>), AdjustBenefits(bens, <<6, 5>>), rate)

PessimisticProjection(invs, bens, rate) ==
    CalculateFinancialProjection(
        AdjustInvestments(invs, <<23, 20>>), AdjustBenefits(bens, <<4, 5>>), rate)

\* the dictionary the analysis returns for a business case with the lists
\* invs and bens and the stored projection base, or the exception of its
\* first projection
PerformSensitivityAnalysis(invs, bens, base, rate) ==
    IF RAdd(One, rate) = Zero
    THEN Raised("ZeroDivisionError")
    ELSE
    [kind |-> "returned",
     base_case |-> [npv |-> base.net_present_value, roi |-> base.roi_percentage],
     optimistic_case |-> ScenarioCase(OptimisticProjection(invs, bens, rate), base),
     pessimistic_case |-> ScenarioCase(PessimisticProjection(invs, bens, rate), base),
     variable_impact |->
        [investment_cost |->
            [t \in 1..4 |->
                Impact(InvestmentCostValues[t],
                       CalculateFinancialProjection(
                           AdjustInvestments(invs, InvestmentCostValues[t]), bens, rate),
                       base)],
         benefit_realization |->
            [t \in 1..4 |->
                Impact(BenefitRealizationValues[t],
                       CalculateFinancialProjection(
                           invs, AdjustBenefits(bens, BenefitRealizationValues[t]), rate),
                       base)],
         timeline_delay |->
            [t \in 1..4 |->
                Impact(TimelineDelayValues[t],
                       CalculateFinancialProjection(
                           invs, DelayBenefits(bens, TimelineDelayValues[t]), rate),
                       base)]]]

\* no analysis has been made of the current business case
NoAnalysis == [kind |-> "none"]

\* no helper has been called
NoCall == [op |-> "none"]

\* ------------------------------------------------------------------------
\* BusinessCaseGenerator._generate_approval_recommendation
\* ------------------------------------------------------------------------

\* RiskLevel: the value of each member
RiskLevel == [LOW |-> 1, MEDIUM |-> 2, HIGH |-> 3, VERY_HIGH |-> 4]

RiskFactor(risk, impact, probability, mitigation_strategy) ==
    [risk |-> risk, impact |-> impact, probability |-> probability,
     mitigation_strategy |-> mitigation_strategy,
     mitigation_cost |-> Zero, residual_impact |-> "LOW"]

\* [r for r in risks if r.impact.value >= 3 and r.probability > 0.5]
HighRisks(risks) ==
    SelectSeq(risks, LAMBDA r : RiskLevel[r.impact] >= 3 /\ RLt(<<1, 2>>, r.probability))

\* the first test is roi_percentage >= 30
ApprovalRecommendationFromThirty(projection, risks) ==
    LET recommendation ==
            IF RLe(R(30), projection.roi_percentage)
               /\ projection.payback_period_months <= 24
            THEN "STRONGLY RECOMMEND APPROVAL"
            ELSE IF RLt(R(15), projection.roi_percentage)
                    /\ projection.payback_period_months <= 36
                 THEN "RECOMMEND APPROVAL"
                 ELSE "CONDITIONAL APPROVAL WITH RISK MITIGATION"
        high_risks == HighRisks(risks)
        risk_note ==
            IF Len(high_risks) > 0
            THEN <<" Key risks identified: ", Len(high_risks),
                   " high-impact risks require mitigation.">>
            ELSE <<>>
    IN  <<recommendation, ".">> \o risk_note

\* the string f"{recommendation}.{risk_note}", as the sequence of its parts
ApprovalRecommendation(projection, risks) ==
    LET recommendation ==
            IF RLt(R(30), projection.roi_percentage)
               /\ projection.payback_period_months <= 24
            THEN "STRONGLY RECOMMEND APPROVAL"
            ELSE IF RLt(R(15), projection.roi_percentage)
                    /\ projection.payback_period_months <= 36
                 THEN "RECOMMEND APPROVAL"
                 ELSE "CONDITIONAL APPROVAL WITH RISK MITIGATION"
        high_risks == HighRisks(risks)
        risk_note ==
            IF Len(high_risks) > 0
            THEN <<" Key risks identified: ", Len(high_risks),
                   " high-impact risks require mitigation.">>
            ELSE <<>>
    IN  <<recommendation, ".">> \o risk_note

\* ------------------------------------------------------------------------
\* BusinessCaseGenerator._generate_investments
\* ------------------------------------------------------------------------

\* self.investment_templates: each template as the sequence of its
\* (investment type, allocation) entries, in insertion order
investment_templates ==
    [default |->
        << <<"infrastructure", <<3, 10>> >>, <<"technology", <<1, 4>> >>,
           <<"talent", <<1, 5>> >>, <<"training", <<3, 20>> >>,
           <<"consulting", <<1, 10>> >> >>,
     financial_services |->
        << <<"technology", <<7, 20>> >>, <<"infrastructure", <<1, 4>> >>,
           <<"talent", <<1, 5>> >>, <<"consulting", <<3, 20>> >>,
           <<"training", <<1, 20>> >> >>,
     manufacturing |->
        << <<"infrastructure", <<2, 5>> >>, <<"technology", <<3, 10>> >>,
           <<"talent", <<3, 20>> >>, <<"training", <<1, 10>> >>,
           <<"consulting", <<1, 20>> >> >>]

\* self._get_investment_description(InvestmentType(inv_type))
InvestmentDescription(inv_type) ==
    LET descriptions ==
            [infrastructure |-> "AI-ready infrastructure and cloud platforms",
             talent |-> "AI talent acquisition and retention",
             technology |-> "AI software licenses and tools",
             training |-> "Employee training and upskilling programs",
             consulting |-> "External consulting and implementation support"]
    IN  IF inv_type \in DOMAIN descriptions
        THEN descriptions[inv_type]
        ELSE "AI transformation investment"

\* size.lower(), for the sizes the callers write
Lower(size) ==
    IF size = "Large" THEN "large" ELSE size

\* size_multipliers.get(size.lower(), 1.0) of _generate_investments
InvestmentSizeMultiplier(size) ==
    LET size_multipliers ==
            [small |-> <<3, 5>>, medium |-> One, large |-> <<7, 5>>, enterprise |-> R(2)]
    IN  IF Lower(size) \in DOMAIN size_multipliers
        THEN size_multipliers[Lower(size)]
        ELSE One

\* the Investment the loop builds for one entry of the template
AllocatedInvestment(inv_type, allocation) ==
    Investment(inv_type, InvestmentDescription(inv_type),
               RMul(allocation, <<3, 5>>),
               RMul(allocation, <<3, 10>>),
               RMul(allocation, <<1, 10>>),
               RMul(allocation, <<1, 20>>),
               <<17, 20>>)

\* the loop over the template from its entry k on, with the investments
\* appended and the budget remaining so far
RECURSIVE AllocateFrom(_, _, _, _, _, _)
AllocateFrom(template, k, budget, multiplier, investment_list, remaining_budget) ==
    IF k > Len(template) \/ RLe(remaining_budget, Zero)
    THEN investment_list
    ELSE LET allocation == RMul(RMul(budget, template[k][2]), multiplier)
         IN  AllocateFrom(template, k + 1, budget, multiplier,
                          Append(investment_list,
                                 AllocatedInvestment(template[k][1], allocation)),
                          RSub(remaining_budget, allocation))

\* generator._generate_investments(industry, size, budget)
GenerateInvestments(industry, size, budget) ==
    LET template ==
            IF industry \in DOMAIN investment_templates
            THEN investment_templates[industry]
            ELSE investment_templates["default"]
    IN  AllocateFrom(template, 1, budget, InvestmentSizeMultiplier(size), <<>>, budget)

\* ------------------------------------------------------------------------
\* strategic_foundation/ai_readiness_assessor.py: the recommendations of
\* a readiness assessment
\* ------------------------------------------------------------------------

\* ReadinessDimension: the values of the enum, in declaration order, which
\* is the order conduct_assessment inserts them into dimension_assessments
ReadinessDimension ==
    <<"strategic_alignment", "leadership_commitment", "data_maturity",
      "technical_infrastructure", "talent_capabilities",
      "organizational_culture", "change_management", "governance_ethics">>

\* MaturityScore: NASCENT = 1 ... OPTIMIZING = 5, by value
MaturityScore == 1..5

\* the recommendations of _generate_dimension_insights(dimension, maturity):
\* only strategic_alignment has insights of its own, every other dimension
\* gets default_insights
DimensionRecommendations(dimension, maturity) ==
    IF dimension = "strategic_alignment"
    THEN CASE maturity = 1 -> <<"Develop AI vision statement",
                                "Align AI initiatives with business strategy">>
           [] maturity = 2 -> <<"Create AI strategy document",
                                "Establish governance board">>
           [] maturity = 3 -> <<"Enhance strategy integration",
                                "Develop success metrics">>
           [] maturity = 4 -> <<"Optimize strategic outcomes",
                                "Expand competitive advantage">>
           [] maturity = 5 -> <<"Share best practices",
                                "Lead industry transformation">>
    ELSE <<"Conduct detailed evaluation">>

strategic_dimensions ==
    {"strategic_alignment", "leadership_commitment", "data_maturity"}

\* _assess_dimension_priority(dimension, maturity)
AssessDimensionPriority(dimension, maturity) ==
    IF dimension \in strategic_dimensions /\ maturity <= 2 THEN "high"
    ELSE IF maturity <= 1 THEN "high"
    ELSE IF maturity <= 3 THEN "medium"
    ELSE "low"

\* the DimensionAssessment _assess_dimension builds for a dimension whose
\* raw score falls in the given maturity level (the fields the
\* recommendations are made of)
DimensionAssessment(dimension, maturity) ==
    [dimension |-> dimension,
     maturity_level |-> maturity,
     recommendations |-> DimensionRecommendations(dimension, maturity),
     priority |-> AssessDimensionPriority(dimension, maturity)]

\* dimension_assessments of conduct_assessment, as the sequence of the
\* dict's values in insertion order
DimensionAssessments(maturities) ==
    [i \in 1..Len(ReadinessDimension) |->
        DimensionAssessment(ReadinessDimension[i], maturities[i])]

\* the sort key of _generate_priority_recommendations:
\* (priority == "high", -maturity_level.value), False before True
SortKey(assessment) ==
    <<IF assessment.priority = "high" THEN 1 ELSE 0, 0 - assessment.maturity_level>>

KeyLess(k, l) == k[1] < l[1] \/ (k[1] = l[1] /\ k[2] < l[2])

\* sorted(assessments.items(), key = ...): ascending and stable, so equal
\* keys keep their insertion order
SortedAssessments(assessments) ==
    LET before(j, i) ==
            \/ KeyLess(SortKey(assessments[j]), SortKey(assessments[i]))
            \/ (SortKey(assessments[j]) = SortKey(assessments[i]) /\ j < i)
        rank(i) == Cardinality({j \in 1..Len(assessments) : before(j, i)}) + 1
    IN  [k \in 1..Len(assessments) |->
            assessments[CHOOSE i \in 1..Len(assessments) : rank(i) = k]]

\* s[:n]
Take(s, n) == SubSeq(s, 1, IF Len(s) < n THEN Len(s) ELSE n)

\* the loop of _generate_priority_recommendations from the k-th sorted
\* assessment on
RECURSIVE ExtendFrom(_, _, _)
ExtendFrom(sorted_assessments, k, recommendations) ==
    IF k > Len(sorted_assessments) THEN recommendations
    ELSE ExtendFrom(sorted_assessments, k + 1,
            IF sorted_assessments[k].priority \in {"high", "medium"}
            THEN recommendations \o Take(sorted_assessments[k].recommendations, 2)
            ELSE recommendations)

\* _generate_priority_recommendations(assessments)
GeneratePriorityRecommendations(assessments) ==
    Take(ExtendFrom(SortedAssessments(assessments), 1, <<>>), 8)

\* ------------------------------------------------------------------------
\* TransformationOrchestrator: data and pure computations
\* ------------------------------------------------------------------------

\* MaturityLevel: the value of each member
MaturityLevel ==
    [ADHOC |-> 1, SYSTEMATIC |-> 2, INTEGRATED |-> 3, ADVANTAGE |-> 4, NATIVE |-> 5]

\* OrganizationProfile(name, industry, size, current_maturity) with the
\* default scores
OrganizationProfile(name, industry, size, current_maturity) ==
    [name |-> name, industry |-> industry, size |-> size,
     current_maturity |-> current_maturity,
     ai_readiness_score |-> Zero,
     stakeholder_alignment_score |-> Zero,
     change_readiness_score |-> Zero,
     technical_readiness_score |-> Zero]

\* the profiles the caller creates, by object: two of them share a name, and
\* the third has an industry and a size the orchestrator has no entry for
OrganizationProfiles ==
    [a |-> OrganizationProfile("TechCorp", "financial_services", "large", "SYSTEMATIC"),
     b |-> OrganizationProfile("TechCorp", "retail", "small", "NATIVE"),
     c |-> OrganizationProfile("Acme", "education", "huge", "ADHOC")]

\* self.industry_templates
industry_templates ==
    [financial_services |->
        [focus_areas |-> <<"regulatory_compliance", "risk_management", "customer_analytics">>,
         timeline_multiplier |-> <<13, 10>>,
         success_metrics |-> [roi_improvement |-> <<9, 20>>, compliance_score |-> <<19, 20>>]],
     healthcare |->
        [focus_areas |-> <<"patient_safety", "hipaa_compliance", "diagnostic_accuracy">>,
         timeline_multiplier |-> <<3, 2>>,
         success_metrics |-> [roi_improvement |-> <<7, 20>>, safety_score |-> <<49, 50>>]],
     manufacturing |->
        [focus_areas |-> <<"operational_excellence", "safety", "predictive_maintenance">>,
         timeline_multiplier |-> <<6, 5>>,
         success_metrics |-> [roi_improvement |-> <<11, 20>>, safety_incidents |-> <<-2, 5>>]],
     retail |->
        [focus_areas |-> <<"customer_experience", "personalization", "supply_chain">>,
         timeline_multiplier |-> One,
         success_metrics |-> [roi_improvement |-> <<1, 2>>, customer_satisfaction |-> <<1, 4>>]],
     government |->
        [focus_areas |-> <<"transparency", "security", "citizen_services">>,
         timeline_multiplier |-> <<9, 5>>,
         success_metrics |-> [roi_improvement |-> <<3, 10>>, transparency_score |-> <<9, 10>>]]]

\* industry_template.get("timeline_multiplier", 1.0) of
\* self.industry_templates.get(industry, {})
TimelineMultiplier(industry) ==
    IF industry \in DOMAIN industry_templates
    THEN industry_templates[industry].timeline_multiplier
    ELSE One

\* industry_template.get("success_metrics", {})
SuccessMetrics(industry) ==
    IF industry \in DOMAIN industry_templates
    THEN industry_templates[industry].success_metrics
    ELSE <<>>

size_multipliers ==
    [small |-> <<4, 5>>, medium |-> One, large |-> <<13, 10>>, enterprise |-> <<8, 5>>]

\* orchestrator._calculate_timeline(organization)
CalculateTimeline(organization) ==
    LET base_weeks == R(26)
        size_multiplier ==
            IF organization.size \in DOMAIN size_multipliers
            THEN size_multipliers[organization.size]
            ELSE One
        industry_multiplier == TimelineMultiplier(organization.industry)
        maturity_gap == MaturityLevel[organization.current_maturity]
        maturity_multiplier == RAdd(One, RMul(R(5 - maturity_gap), <<1, 10>>))
    IN  RFloor(RMul(RMul(RMul(base_weeks, size_multiplier), industry_multiplier),
                    maturity_multiplier))

\* orchestrator._define_success_criteria(organization)
DefineSuccessCriteria(organization) ==
    LET base_criteria ==
            [roi_improvement |-> <<1, 2>>,
             employee_adoption_rate |-> <<19, 20>>,
             implementation_success_rate |-> <<87, 100>>,
             customer_satisfaction_improvement |-> <<1, 5>>]
        industry_criteria == SuccessMetrics(organization.industry)
    IN  [k \in DOMAIN base_criteria \cup DOMAIN industry_criteria |->
            IF k \in DOMAIN industry_criteria
            THEN industry_criteria[k]
            ELSE base_criteria[k]]

\* TransformationPlan(organization=..., timeline_weeks=..., success_criteria=...)
\* with the defaults of the other fields; organization is the object handed
\* in, not a copy
TransformationPlan(organization, timeline_weeks, success_criteria) ==
    [organization |-> organization,
     current_phase |-> "foundation",
     target_maturity |-> "INTEGRATED",
     timeline_weeks |-> timeline_weeks,
     budget |-> Zero,
     success_criteria |-> success_criteria,
     risk_factors |-> <<>>,
     mitigation_strategies |-> <<>>]

\* the ticks of the clock in one second
TicksPerSecond == 2

\* datetime.now().strftime('%Y%m%d_%H%M%S'): the time cut to the second
Timestamp(t) == t \div TicksPerSecond

\* f"{organization.name}_{timestamp}"
TransformationId(name, t) == <<name, Timestamp(t)>>

\* the four assessments of orchestrator.assess_readiness
Assessments(organization) ==
    [ai_readiness |->
        RMin(One, RAdd(<<13, 20>>,
                       RMul(R(MaturityLevel[organization.current_maturity]), <<1, 20>>))),
     stakeholder_alignment |-> <<18, 25>>,
     change_readiness |-> <<17, 25>>,
     technical_readiness |-> <<3, 4>>]

\* the technical readiness is returned but not stored
AssessedWithoutTechnical(organization) ==
    [organization EXCEPT
        !.ai_readiness_score = Assessments(organization).ai_readiness,
        !.stakeholder_alignment_score = Assessments(organization).stakeholder_alignment,
        !.change_readiness_score = Assessments(organization).change_readiness]

\* the profile after assess_readiness stored the assessments in it
Assessed(organization) ==
    [organization EXCEPT
        !.ai_readiness_score = Assessments(organization).ai_readiness,
        !.stakeholder_alignment_score = Assessments(organization).stakeholder_alignment,
        !.change_readiness_score = Assessments(organization).change_readiness,
        !.technical_readiness_score = Assessments(organization).technical_readiness]

phase_1_foundation ==
    [name |-> "phase_1_foundation",
     duration_weeks |-> 4,
     activities |-> <<"Stakeholder alignment and buy-in",
                      "AI readiness assessment completion",
                      "Business case development and approval",
                      "Governance structure establishment",
                      "Initial team formation">>,
     success_criteria |-> [stakeholder_alignment |-> <<17, 20>>,
                           business_case_approval |-> TRUE,
                           governance_establishment |-> TRUE]]

phase_2_pilots ==
    [name |-> "phase_2_pilots",
     duration_weeks |-> 8,
     activities |-> <<"Quick wins identification and implementation",
                      "Pilot project selection and execution",
                      "Initial training program deployment",
                      "Change management activation",
                      "Success metrics establishment">>,
     success_criteria |-> [pilot_success_rate |-> <<4, 5>>,
                           employee_engagement |-> <<3, 4>>,
                           quick_wins_delivered |-> 3]]

phase_3_scaling ==
    [name |-> "phase_3_scaling",
     duration_weeks |-> 10,
     activities |-> <<"Enterprise-wide rollout planning",
                      "Cross-functional integration",
                      "Advanced training deployment",
                      "Performance optimization",
                      "Culture transformation acceleration">>,
     success_criteria |-> [deployment_coverage |-> <<7, 10>>,
                           integration_success |-> <<17, 20>>,
                           culture_transformation |-> <<4, 5>>]]

\* plan.success_criteria.get("roi_improvement", 0.50)
RoiImprovementTarget(plan) ==
    IF "roi_improvement" \in DOMAIN plan.success_criteria
    THEN plan.success_criteria["roi_improvement"]
    ELSE <<1, 2>>

phase_4_maturity(plan) ==
    [name |-> "phase_4_maturity",
     duration_weeks |-> 6,
     activities |-> <<"Continuous improvement establishment",
                      "Innovation capability development",
                      "Leadership development completion",
                      "Full organizational adoption",
                      "Competitive advantage realization">>,
     success_criteria |-> [maturity_level |-> MaturityLevel[plan.target_maturity],
                           roi_achievement |-> RoiImprovementTarget(plan),
                           adoption_rate |-> <<19, 20>>]]

\* an organization that is AI-native already gets no pilot phase
RoadmapWithoutPilotsForNative(plan, organization) ==
    IF organization.current_maturity = "NATIVE"
    THEN <<phase_1_foundation, phase_3_scaling, phase_4_maturity(plan)>>
    ELSE <<phase_1_foundation, phase_2_pilots, phase_3_scaling, phase_4_maturity(plan)>>

\* the roadmap dictionary, as the sequence of its entries in insertion order
Roadmap(plan, organization) ==
    <<phase_1_foundation, phase_2_pilots, phase_3_scaling, phase_4_maturity(plan)>>

\* the weight of the phase is reported as it is, not as a percentage
CalculateCompletionPercentageAsFraction(plan) ==
    LET phase_weights ==
            [foundation |-> <<1, 5>>, pilots |-> <<7, 20>>,
             scaling |-> <<3, 5>>, maturity |-> One]
    IN  IF plan.current_phase \in DOMAIN phase_weights
        THEN phase_weights[plan.current_phase]
        ELSE Zero

\* orchestrator._calculate_completion_percentage(plan)
CalculateCompletionPercentage(plan) ==
    LET phase_weights ==
            [foundation |-> <<1, 5>>, pilots |-> <<7, 20>>,
             scaling |-> <<3, 5>>, maturity |-> One]
    IN  RMul(IF plan.current_phase \in DOMAIN phase_weights
             THEN phase_weights[plan.current_phase]
             ELSE Zero,
             R(100))

\* orchestrator._identify_current_risks(plan), org being plan.organization
IdentifyCurrentRisks(org) ==
    (IF RLt(org.stakeholder_alignment_score, <<3, 4>>)
     THEN <<"Low stakeholder alignment may slow progress">> ELSE <<>>)
    \o (IF RLt(org.change_readiness_score, <<7, 10>>)
        THEN <<"Organization may resist cultural changes">> ELSE <<>>)
    \o (IF RLt(org.technical_readiness_score, <<7, 10>>)
        THEN <<"Technical infrastructure gaps may cause delays">> ELSE <<>>)

\* the metrics track_progress reports
current_metrics ==
    [implementation_success_rate |-> <<87, 100>>,
     time_to_production |-> 180,
     roi_improvement |-> <<11, 20>>,
     employee_adoption_rate |-> <<41, 50>>,
     revenue_growth |-> Zero,
     cost_reduction |-> Zero,
     customer_satisfaction_improvement |-> Zero,
     employee_productivity_gain |-> Zero]

\* orchestrator._generate_recommendations(plan, metrics), org being
\* plan.organization
GenerateRecommendations(plan, org, metrics) ==
    (IF RLt(org.stakeholder_alignment_score, <<4, 5>>)
     THEN <<"Increase executive engagement and communication">> ELSE <<>>)
    \o (IF RLt(metrics.employee_adoption_rate, <<17, 20>>)
        THEN <<"Enhance training programs and change management">> ELSE <<>>)
    \o (IF RLt(metrics.roi_improvement, RoiImprovementTarget(plan))
        THEN <<"Focus on high-impact use cases and optimization">> ELSE <<>>)

\* the progress dictionary of track_progress
Progress(plan, org) ==
    [current_phase |-> plan.current_phase,
     completion_percentage |-> CalculateCompletionPercentage(plan),
     metrics |-> current_metrics,
     risks |-> IdentifyCurrentRisks(org),
     recommendations |-> GenerateRecommendations(plan, org, current_metrics)]

\* a call returned value
Returned(value) == [kind |-> "returned", value |-> value]

\* the orchestrator has not been called
NoResult == [op |-> "none"]

\* orchestrator.assess_readiness(transformation_id): its outcome, and the
\* profiles after it
AssessReadiness(transformations, orgs, transformation_id) ==
    IF transformation_id \notin DOMAIN transformations
    THEN [outcome |-> Raised("ValueError"), organizations |-> orgs]
    ELSE LET org == transformations[transformation_id].organization
         IN  [outcome |-> Returned(Assessments(orgs[org])),
              organizations |-> [orgs EXCEPT ![org] = Assessed(@)]]

\* orchestrator.generate_transformation_roadmap(transformation_id)
GenerateTransformationRoadmap(transformations, orgs, transformation_id) ==
    IF transformation_id \notin DOMAIN transformations
    THEN Raised("ValueError")
    ELSE LET plan == transformations[transformation_id]
         IN  Returned(Roadmap(plan, orgs[plan.organization]))

\* an unknown id is answered with the progress of a default plan
TrackProgressDefaultPlan(transformations, orgs, transformation_id) ==
    IF transformation_id \notin DOMAIN transformations
    THEN Returned(Progress(TransformationPlan("a", 26, <<>>), OrganizationProfiles["a"]))
    ELSE LET plan == transformations[transformation_id]
         IN  Returned(Progress(plan, orgs[plan.organization]))

\* orchestrator.track_progress(transformation_id)
TrackProgress(transformations, orgs, transformation_id) ==
    IF transformation_id \notin DOMAIN transformations
    THEN Raised("ValueError")
    ELSE LET plan == transformations[transformation_id]
         IN  Returned(Progress(plan, orgs[plan.organization]))

\* ------------------------------------------------------------------------
\* State
\* ------------------------------------------------------------------------

VARIABLES
    discount_rate,  \* generator.discount_rate
    investments,    \* the list of Investment the caller hands to the engine
    benefits,       \* the list of Benefit the caller hands to the engine
    projection,     \* what the engine returned for these lists at this rate
    sensitivity,    \* what perform_sensitivity_analysis returned for them
    helper,         \* the latest call of a helper method of the generator
    organizations,  \* the OrganizationProfile objects of the caller
    active_transformations,  \* orchestrator.active_transformations
    now,            \* the clock datetime.now() reads, in ticks
    result          \* the outcome of the latest call of the orchestrator

\* the state of the generator and of its caller
gen == <<discount_rate, investments, benefits, projection, sensitivity, helper>>

\* the state of the orchestrator and of its caller
orch == <<organizations, active_transformations, now, result>>

vars == <<gen, orch>>

Init ==
    /\ discount_rate = <<1, 10>>
    /\ investments = <<>>
    /\ benefits = <<>>
    /\ projection = NoProjection
    /\ sensitivity = NoAnalysis
    /\ helper = NoCall
    /\ organizations = OrganizationProfiles
    /\ active_transformations = <<>>
    /\ now = 0
    /\ result = NoResult

\* the caller appends an Investment to a list of fewer than max items
AppendInvestment(inv, max) ==
    /\ Len(investments) < max
    /\ investments' = Append(investments, inv)
    /\ projection' = NoProjection
    /\ sensitivity' = NoAnalysis
    /\ UNCHANGED <<orch, discount_rate, benefits, helper>>

\* the caller appends a Benefit to a list of fewer than max items
AppendBenefit(ben, max) ==
    /\ Len(benefits) < max
    /\ benefits' = Append(benefits, ben)
    /\ projection' = NoProjection
    /\ sensitivity' = NoAnalysis
    /\ UNCHANGED <<orch, discount_rate, investments, helper>>

\* the caller appends an Investment to the list it is building
AddInvestment(inv) == AppendInvestment(inv, MaxItems)

\* the caller appends a Benefit to the list it is building
AddBenefit(ben) == AppendBenefit(ben, MaxItems)

\* the caller configures the generator's discount rate
SetDiscountRate(rate) ==
    /\ rate # discount_rate
    /\ discount_rate' = rate
    /\ projection' = NoProjection
    /\ sensitivity' = NoAnalysis
    /\ UNCHANGED <<orch, investments, benefits, helper>>

\* the two lists after a call of _calculate_financial_projection, which
\* reads the items and assigns to none of them
ListsAfterProjection(invs, bens) == <<invs, bens>>

\* generator._calculate_financial_projection(investments, benefits); no
\* analysis has been made of what it returns
Project ==
    /\ projection' = CalculateFinancialProjection(investments, benefits, discount_rate)
    /\ investments' = ListsAfterProjection(investments, benefits)[1]
    /\ benefits' = ListsAfterProjection(investments, benefits)[2]
    /\ sensitivity' = NoAnalysis
    /\ UNCHANGED <<orch, discount_rate, helper>>

Next ==
    \/ \E inv \in InvestmentItems : AddInvestment(inv)
    \/ \E ben \in BenefitItems : AddBenefit(ben)
    \/ \E rate \in DiscountRates : SetDiscountRate(rate)
    \/ Project

Spec == Init /\ [][Next]_vars

\* ------------------------------------------------------------------------
\* The helpers called on single items
\* ------------------------------------------------------------------------

\* generator._adjust_investment(inv, factor)
CallAdjustInvestment(inv, factor) ==
    /\ helper' = [op |-> "_adjust_investment", item |-> inv, factor |-> factor,
                  result |-> AdjustInvestment(inv, factor)]
    /\ UNCHANGED <<orch, discount_rate, investments, benefits, projection, sensitivity>>

\* generator._adjust_benefit(ben, factor)
CallAdjustBenefit(ben, factor) ==
    /\ helper' = [op |-> "_adjust_benefit", item |-> ben, factor |-> factor,
                  result |-> AdjustBenefit(ben, factor)]
    /\ UNCHANGED <<orch, discount_rate, investments, benefits, projection, sensitivity>>

\* generator._delay_benefit(ben, delay_months)
CallDelayBenefit(ben, delay_months) ==
    /\ helper' = [op |-> "_delay_benefit", item |-> ben,
                  delay_months |-> delay_months,
                  result |-> DelayBenefit(ben, delay_months)]
    /\ UNCHANGED <<orch, discount_rate, investments, benefits, projection, sensitivity>>

NextItems ==
    \/ \E inv \in InvestmentItems, factor \in Factors :
          CallAdjustInvestment(inv, factor)
    \/ \E ben \in BenefitItems, factor \in Factors :
          CallAdjustBenefit(ben, factor)
    \/ \E ben \in BenefitItems, delay_months \in Delays :
          CallDelayBenefit(ben, delay_months)

SpecItems == Init /\ [][NextItems]_vars

\* ------------------------------------------------------------------------
\* A business case, its sensitivity analysis and the helpers on its items
\* ------------------------------------------------------------------------

\* the longest list of a business case
MaxCaseItems == 1

\* the items of the business cases
CaseInvestmentItems ==
    { Investment("talent", "AI talent", R(10), R(20), R(30), R(5), <<17, 20>>),
      Investment("infrastructure", "Cloud platform", R(100), Zero, Zero, Zero, <<17, 20>>) }

CaseBenefitItems ==
    { Benefit("productivity_improvement", "Productivity", R(10), R(20), R(30), R(40),
              <<3, 4>>, <<4, 5>>) }

\* the discount rates the generator is configured with between calls
CaseRates == { <<1, 10>>, Zero, R(-1) }

\* the factor and the delay of the helper calls on the items of a case
CaseFactors == { <<6, 5>> }
CaseDelays == { 12 }

\* the caller appends an Investment to the list of the business case
CaseAddInvestment(inv) == AppendInvestment(inv, MaxCaseItems)

\* the caller appends a Benefit to the list of the business case
CaseAddBenefit(ben) == AppendBenefit(ben, MaxCaseItems)

\* generator.discount_rate = rate: the business case keeps the projection
\* it stores
ConfigureDiscountRate(rate) ==
    /\ rate # discount_rate
    /\ discount_rate' = rate
    /\ sensitivity' = NoAnalysis
    /\ UNCHANGED <<orch, investments, benefits, projection, helper>>

\* the helper scales its argument in place
InvestmentAfterAdjustInPlace(investment, factor) == AdjustInvestment(investment, factor)

\* the argument of _adjust_investment after the call: the helper builds a
\* new Investment and assigns to no field of its argument
InvestmentAfterAdjust(investment, factor) == investment

\* the argument of _adjust_benefit after the call
BenefitAfterAdjust(benefit, factor) == benefit

\* the argument of _delay_benefit after the call
BenefitAfterDelay(benefit, delay_months) == benefit

\* the lists and the stored projection of the business case after
\* perform_sensitivity_analysis, which reads them and assigns to none
CaseAfterAnalysis(invs, bens, base) == <<invs, bens, base>>

\* generator.perform_sensitivity_analysis(business_case), for a business
\* case that stores a FinancialProjection
Analyse ==
    /\ projection.kind = "returned"
    /\ investments' = CaseAfterAnalysis(investments, benefits, projection)[1]
    /\ benefits' = CaseAfterAnalysis(investments, benefits, projection)[2]
    /\ projection' = CaseAfterAnalysis(investments, benefits, projection)[3]
    /\ UNCHANGED <<orch, discount_rate, helper>>
    /\ sensitivity' = PerformSensitivityAnalysis(investments, benefits,
                                                 projection, discount_rate)

\* generator._calculate_financial_projection(business_case.investments,
\* business_case.benefits), called on the lists of the business case
CaseProject ==
    /\ projection.kind = "returned"
    /\ investments' = ListsAfterProjection(investments, benefits)[1]
    /\ benefits' = ListsAfterProjection(investments, benefits)[2]
    /\ UNCHANGED <<orch, discount_rate, projection, sensitivity>>
    /\ helper' = [op |-> "_calculate_financial_projection",
                  result |-> CalculateFinancialProjection(investments, benefits,
                                                          discount_rate)]

\* generator._adjust_investment(business_case.investments[k], factor)
CaseAdjustInvestment(k, factor) ==
    /\ k \in 1..Len(investments)
    /\ helper' = [op |-> "_adjust_investment", item |-> investments[k],
                  factor |-> factor,
                  result |-> AdjustInvestment(investments[k], factor)]
    /\ investments' = [investments EXCEPT ![k] = InvestmentAfterAdjust(@, factor)]
    /\ UNCHANGED <<orch, discount_rate, benefits, projection, sensitivity>>

\* generator._adjust_benefit(business_case.benefits[k], factor)
CaseAdjustBenefit(k, factor) ==
    /\ k \in 1..Len(benefits)
    /\ helper' = [op |-> "_adjust_benefit", item |-> benefits[k],
                  factor |-> factor,
                  result |-> AdjustBenefit(benefits[k], factor)]
    /\ benefits' = [benefits EXCEPT ![k] = BenefitAfterAdjust(@, factor)]
    /\ UNCHANGED <<orch, discount_rate, investments, projection, sensitivity>>

\* generator._delay_benefit(business_case.benefits[k], delay_months)
CaseDelayBenefit(k, delay_months) ==
    /\ k \in 1..Len(benefits)
    /\ helper' = [op |-> "_delay_benefit", item |-> benefits[k],
                  delay_months |-> delay_months,
                  result |-> DelayBenefit(benefits[k], delay_months)]
    /\ benefits' = [benefits EXCEPT ![k] = BenefitAfterDelay(@, delay_months)]
    /\ UNCHANGED <<orch, discount_rate, investments, projection, sensitivity>>

NextSens ==
    \/ \E inv \in CaseInvestmentItems : CaseAddInvestment(inv)
    \/ \E ben \in CaseBenefitItems : CaseAddBenefit(ben)
    \/ \E rate \in CaseRates : ConfigureDiscountRate(rate)
    \/ Project
    \/ Analyse
    \/ CaseProject
    \/ \E k \in 1..MaxCaseItems, factor \in CaseFactors :
          CaseAdjustInvestment(k, factor)
    \/ \E k \in 1..MaxCaseItems, factor \in CaseFactors :
          CaseAdjustBenefit(k, factor)
    \/ \E k \in 1..MaxCaseItems, delay_months \in CaseDelays :
          CaseDelayBenefit(k, delay_months)

SpecSens == Init /\ [][NextSens]_vars

\* ------------------------------------------------------------------------
\* The orchestrator and its registry
\* ------------------------------------------------------------------------

\* the last tick of the clock
MaxClock == 2

\* the ids the three lookups are called with: every id the registry can
\* hold, and one of a name never registered
TransformationIds ==
    { TransformationId(OrganizationProfiles[o].name, t) :
        o \in DOMAIN OrganizationProfiles, t \in 0..MaxClock }
    \cup { TransformationId("Ghost", 0) }

\* time passes
Tick ==
    /\ now < MaxClock
    /\ now' = now + 1
    /\ UNCHANGED <<gen, organizations, active_transformations, result>>

\* orchestrator.initialize_transformation(organization), organization being
\* the profile object o
InitializeTransformation(o) ==
    LET organization == organizations[o]
        transformation_id == TransformationId(organization.name, now)
        plan == TransformationPlan(o, CalculateTimeline(organization),
                                   DefineSuccessCriteria(organization))
    IN  /\ active_transformations' =
              [id \in DOMAIN active_transformations \cup {transformation_id} |->
                  IF id = transformation_id THEN plan ELSE active_transformations[id]]
        /\ result' = [op |-> "initialize_transformation", organization |-> o,
                      outcome |-> Returned(transformation_id)]
        /\ UNCHANGED <<gen, organizations, now>>

\* orchestrator.assess_readiness(transformation_id)
CallAssessReadiness(transformation_id) ==
    LET call == AssessReadiness(active_transformations, organizations, transformation_id)
    IN  /\ organizations' = call.organizations
        /\ result' = [op |-> "assess_readiness", id |-> transformation_id,
                      outcome |-> call.outcome]
        /\ UNCHANGED <<gen, active_transformations, now>>

\* orchestrator.generate_transformation_roadmap(transformation_id)
CallGenerateTransformationRoadmap(transformation_id) ==
    /\ result' = [op |-> "generate_transformation_roadmap", id |-> transformation_id,
                  outcome |-> GenerateTransformationRoadmap(
                                  active_transformations, organizations, transformation_id)]
    /\ UNCHANGED <<gen, organizations, active_transformations, now>>

\* orchestrator.track_progress(transformation_id)
CallTrackProgress(transformation_id) ==
    /\ result' = [op |-> "track_progress", id |-> transformation_id,
                  outcome |-> TrackProgress(
                                  active_transformations, organizations, transformation_id)]
    /\ UNCHANGED <<gen, organizations, active_transformations, now>>

NextOrch ==
    \/ Tick
    \/ \E o \in DOMAIN OrganizationProfiles : InitializeTransformation(o)
    \/ \E id \in TransformationIds : CallAssessReadiness(id)
    \/ \E id \in TransformationIds : CallGenerateTransformationRoadmap(id)
    \/ \E id \in TransformationIds : CallTrackProgress(id)

SpecOrch == Init /\ [][NextOrch]_vars

\* ------------------------------------------------------------------------
\* The approval recommendation of a projection and its risks
\* ------------------------------------------------------------------------

\* the longest list of risks
MaxRisks == 2

\* the ROI percentages and the payback periods of the projections handed in,
\* with those on either side of each threshold
ApprovalRois == { R(-100), R(15), <<31, 2>>, R(30), <<61, 2>>, R(300) }
ApprovalPaybacks == { 12, 24, 36, 48 }

\* the risks handed in: a high impact at a probability of exactly 0.5 and
\* above it, and a medium and a very high impact above it
RiskFactors ==
    { RiskFactor("Skills gap", "HIGH", <<1, 2>>, "Training"),
      RiskFactor("Skills gap", "HIGH", <<3, 5>>, "Training"),
      RiskFactor("Data quality", "MEDIUM", <<3, 5>>, "Data governance"),
      RiskFactor("Regulatory change", "VERY_HIGH", <<3, 5>>, "Compliance review") }

\* the lists of at most n risks
RiskLists(n) == UNION { [1..m -> RiskFactors] : m \in 0..n }

\* generator._generate_approval_recommendation(projection, risks), for a
\* projection with the given roi_percentage and payback_period_months
CallApprovalRecommendation(roi, payback, risks) ==
    /\ helper' = [op |-> "_generate_approval_recommendation",
                  roi_percentage |-> roi,
                  payback_period_months |-> payback,
                  risks |-> risks,
                  result |-> ApprovalRecommendation(
                                 [roi_percentage |-> roi,
                                  payback_period_months |-> payback], risks)]
    /\ UNCHANGED <<orch, discount_rate, investments, benefits, projection, sensitivity>>

NextApproval ==
    \E roi \in ApprovalRois, payback \in ApprovalPaybacks, risks \in RiskLists(MaxRisks) :
        CallApprovalRecommendation(roi, payback, risks)

SpecApproval == Init /\ [][NextApproval]_vars

\* ------------------------------------------------------------------------
\* The investments generated for a budget
\* ------------------------------------------------------------------------

\* the industries, sizes and budgets _generate_investments is called with:
\* an industry without a template, a size in capitals, a size without a
\* multiplier and a budget of 0 among them
BudgetIndustries == {"financial_services", "manufacturing", "retail"}
BudgetSizes == {"small", "medium", "large", "Large", "enterprise", "huge"}
Budgets == {Zero, R(1), R(100), R(1000), R(250000), <<1, 2>>}

\* generator._generate_investments(industry, size, budget)
CallGenerateInvestments(industry, size, budget) ==
    /\ helper' = [op |-> "_generate_investments",
                  industry |-> industry, size |-> size, budget |-> budget,
                  result |-> GenerateInvestments(industry, size, budget)]
    /\ UNCHANGED <<orch, discount_rate, investments, benefits, projection, sensitivity>>

NextBudget ==
    \E industry \in BudgetIndustries, size \in BudgetSizes, budget \in Budgets :
        CallGenerateInvestments(industry, size, budget)

SpecBudget == Init /\ [][NextBudget]_vars

\* ------------------------------------------------------------------------
\* The recommendations of a readiness assessment
\* ------------------------------------------------------------------------

\* the maturity levels the dimensions are assessed at, per dimension in
\* declaration order: every level of strategic_alignment, and for the other
\* dimensions levels of each priority
AssessedMaturities ==
    <<MaturityScore, {2, 3}, {3, 5}, {1, 3}, {3}, {3}, {3}, {1, 3, 4}>>

MaturityAssignments ==
    {<<m1, m2, m3, m4, m5, m6, m7, m8>> :
        m1 \in AssessedMaturities[1], m2 \in AssessedMaturities[2],
        m3 \in AssessedMaturities[3], m4 \in AssessedMaturities[4],
        m5 \in AssessedMaturities[5], m6 \in AssessedMaturities[6],
        m7 \in AssessedMaturities[7], m8 \in AssessedMaturities[8]}

\* assessor._generate_priority_recommendations(dimension_assessments), with
\* the dimension assessments of an organization at the given maturities
CallGeneratePriorityRecommendations(maturities) ==
    /\ helper' = [op |-> "_generate_priority_recommendations",
                  assessments |-> DimensionAssessments(maturities),
                  result |-> GeneratePriorityRecommendations(
                                 DimensionAssessments(maturities))]
    /\ UNCHANGED <<orch, discount_rate, investments, benefits, projection, sensitivity>>

NextAssessor ==
    \E maturities \in MaturityAssignments :
        CallGeneratePriorityRecommendations(maturities)

SpecAssessor == Init /\ [][NextAssessor]_vars

returned == projection.kind = "returned"

\* ------------------------------------------------------------------------
\* Properties of the projection
\* ------------------------------------------------------------------------

\* sum of f over the items of a list, written [k \in 1..Len(list) |-> f(k)]
InvIndex == 1..Len(investments)
BenIndex == 1..Len(benefits)

\* the weight of benefit k: confidence_level * realization_probability
Weight(k) == RMul(benefits[k].confidence_level, benefits[k].realization_probability)

\* the aggregate cost and the aggregate benefit of year y (1-based)
AggregateCost(y) ==
    RSum([k \in InvIndex |-> InvestmentCost(investments[k], y)])
AggregateBenefit(y) ==
    RSum([k \in BenIndex |-> ExpectedBenefit(benefits[k], y)])

\* the running cumulative cash flow after year y (1-based) of the projection
Cumulative(y) == RSum([j \in 1..y |-> projection.yearly_cashflow[j]])

CashflowSum == Cumulative(years)

\* C1: a returned projection has a yearly_cashflow of exactly 5 entries,
\* entry i (0-based) is the aggregate benefit of year i+1 minus the aggregate
\* cost of year i+1, and total_investment / total_benefits are the sums of
\* the five aggregate yearly costs / benefits.
C1_CashflowAndTotals ==
    returned =>
        /\ DOMAIN projection.yearly_cashflow = 1..5
        /\ \A i \in 0..4 :
              projection.yearly_cashflow[i + 1]
                 = RSub(AggregateBenefit(i + 1), AggregateCost(i + 1))
        /\ projection.total_investment = RSum([y \in 1..5 |-> AggregateCost(y)])
        /\ projection.total_benefits = RSum([y \in 1..5 |-> AggregateBenefit(y)])

\* C1 witness: a projection of investments and benefits with a year of net
\* cost and a year of net gain
C1_Witness ==
    /\ returned
    /\ Len(investments) = 2
    /\ Len(benefits) = 2
    /\ \E y \in Years : RLt(projection.yearly_cashflow[y], Zero)
    /\ \E y \in Years : RLt(Zero, projection.yearly_cashflow[y])

\* C2: year 1, 2, 3 of the projection take each item's year_1, year_2,
\* year_3 figure, and years 4 and 5 (and no other year) take each item's
\* ongoing figure, for every investment and every benefit.
C2_YearSchedule ==
    returned =>
        LET cf == projection.yearly_cashflow
            net(ben_field(_), inv_field(_)) ==
                RSub(RSum([k \in BenIndex |-> RMul(ben_field(benefits[k]), Weight(k))]),
                     RSum([k \in InvIndex |-> inv_field(investments[k])]))
            b1(b) == b.year_1_value
            b2(b) == b.year_2_value
            b3(b) == b.year_3_value
            bo(b) == b.ongoing_annual_value
            i1(i) == i.year_1_cost
            i2(i) == i.year_2_cost
            i3(i) == i.year_3_cost
            io(i) == i.ongoing_annual_cost
        IN  /\ cf[1] = net(b1, i1)
            /\ cf[2] = net(b2, i2)
            /\ cf[3] = net(b3, i3)
            /\ cf[4] = net(bo, io)
            /\ cf[5] = net(bo, io)

\* C2 witness: a projection of an investment and a benefit whose year-3 and
\* ongoing figures differ and are not 0
C2_Witness ==
    /\ returned
    /\ \E k \in InvIndex :
          /\ investments[k].ongoing_annual_cost # Zero
          /\ investments[k].ongoing_annual_cost # investments[k].year_3_cost
    /\ \E k \in BenIndex :
          /\ benefits[k].ongoing_annual_value # Zero
          /\ benefits[k].ongoing_annual_value # benefits[k].year_3_value

\* the confidence levels an investment may be given instead of its own
ConfidenceLevels == { Zero, <<1, 2>> }

\* the investments with the confidence_level of investment k set to c
WithConfidence(k, c) ==
    [investments EXCEPT ![k] = [@ EXCEPT !.confidence_level = c]]

\* C3: every year of a benefit, the ongoing years included, counts as
\* value * confidence_level * realization_probability, an investment counts
\* as its raw cost, and changing an investment's confidence_level changes no
\* field of the projection.
C3_BenefitWeightedCostRaw ==
    returned =>
        /\ projection.total_benefits
              = RSum([k \in BenIndex |->
                    RMul(Weight(k),
                         RSum(<<benefits[k].year_1_value, benefits[k].year_2_value,
                                benefits[k].year_3_value,
                                benefits[k].ongoing_annual_value,
                                benefits[k].ongoing_annual_value>>))])
        /\ projection.total_investment
              = RSum([k \in InvIndex |->
                    RSum(<<investments[k].year_1_cost, investments[k].year_2_cost,
                           investments[k].year_3_cost,
                           investments[k].ongoing_annual_cost,
                           investments[k].ongoing_annual_cost>>)])
        /\ \A k \in InvIndex : \A c \in ConfidenceLevels :
              CalculateFinancialProjection(WithConfidence(k, c), benefits, discount_rate)
                 = projection

\* C3 witness: the single benefit year_1_value = 1000, confidence 0.5,
\* realization 0.8 counts as 400 in year 1 when there are no costs
C3_Witness ==
    /\ returned
    /\ investments = << >>
    /\ Len(benefits) = 1
    /\ benefits[1].year_1_value = R(1000)
    /\ benefits[1].confidence_level = <<1, 2>>
    /\ benefits[1].realization_probability = <<4, 5>>
    /\ projection.yearly_cashflow[1] = R(400)

\* C4: net_present_value is the sum over i = 0..4 of
\* yearly_cashflow[i] / (1 + discount_rate)^(i+1); stated without division:
\* npv * (1 + rate)^5 = sum of yearly_cashflow[i] * (1 + rate)^(4 - i).
C4_NetPresentValue ==
    returned =>
        LET growth == RAdd(One, discount_rate)
        IN  RMul(projection.net_present_value, RPow(growth, 5))
               = RSum([y \in 1..5 |->
                     RMul(projection.yearly_cashflow[y], RPow(growth, 5 - y))])

\* C4 witness: a projection at 10% whose first-year cash flow is not 0
C4_Witness ==
    /\ returned
    /\ discount_rate = <<1, 10>>
    /\ projection.yearly_cashflow[1] # Zero
    /\ projection.net_present_value # CashflowSum

\* the ROI formula (total_benefits - total_investment) / total_investment * 100
\* holds of the projection: roi * total_investment = (tb - ti) * 100
RoiFormulaHolds ==
    RMul(projection.roi_percentage, projection.total_investment)
       = RMul(RSub(projection.total_benefits, projection.total_investment), R(100))

\* C5 as stated: the ROI formula for every total_investment that is not 0,
\* and 0 when total_investment is 0.
C5_RoiAsStated ==
    returned =>
        IF projection.total_investment # Zero
        THEN RoiFormulaHolds
        ELSE projection.roi_percentage = Zero

\* C5 amended: roi_percentage is
\* (total_benefits - total_investment) / total_investment * 100 for every
\* input whose total_investment is > 0, and 0 when total_investment is <= 0.
C5_RoiPositiveInvestment ==
    returned =>
        IF RLt(Zero, projection.total_investment)
        THEN RoiFormulaHolds
        ELSE projection.roi_percentage = Zero

\* C5 witness: a negative total_investment with benefits that differ from it
C5_Witness ==
    /\ returned
    /\ RLt(projection.total_investment, Zero)
    /\ RLt(Zero, projection.total_benefits)
    /\ projection.roi_percentage = Zero

\* the payback rule: (y+1)*12 for the first 0-based year index y at which
\* the running cumulative cash flow is >= 0, 60 when there is none
PaybackRule ==
    LET reached == { y \in 0..4 : RLe(Zero, Cumulative(y + 1)) }
    IN  IF reached = {}
        THEN projection.payback_period_months = 60
        ELSE \E y \in reached :
                /\ \A z \in reached : y <= z
                /\ projection.payback_period_months = (y + 1) * 12

\* the cash flows of the example: -100, 40, 40, 40 in years 1 to 4 (what
\* follows the year of payback does not count)
ExampleCashflow ==
    /\ projection.yearly_cashflow[1] = R(-100)
    /\ projection.yearly_cashflow[2] = R(40)
    /\ projection.yearly_cashflow[3] = R(40)
    /\ projection.yearly_cashflow[4] = R(40)

\* C6 as stated: the payback rule, and the cash flows [-100, 40, 40, 40, 0]
\* give 36.
C6_PaybackAsStated ==
    returned =>
        /\ PaybackRule
        /\ ExampleCashflow => projection.payback_period_months = 36

\* C6 amended: payback_period_months is (y+1)*12 for the first 0-based year
\* index y at which the running cumulative cash flow is >= 0, and 60 when it
\* is negative after every one of the 5 years; the cash flows
\* [-100, 40, 40, 40, 0] give 48 (the running sum is -100, -60, -20, +20).
C6_PaybackPeriod ==
    /\ PaybackMonths(<<R(-100), R(40), R(40), R(40), R(0)>>) = 48
    /\ returned =>
          /\ PaybackRule
          /\ ExampleCashflow => projection.payback_period_months = 48

\* C6 witness: the cash flows of the example, with payback in year 4
C6_Witness ==
    /\ returned
    /\ ExampleCashflow
    /\ Cumulative(3) = R(-20)
    /\ Cumulative(4) = R(20)
    /\ projection.payback_period_months = 48

\* a call has been made on the empty lists
EmptyCall ==
    /\ investments = << >>
    /\ benefits = << >>
    /\ projection.kind # "none"

AllZero ==
    /\ projection.total_investment = Zero
    /\ projection.total_benefits = Zero
    /\ projection.net_present_value = Zero
    /\ projection.roi_percentage = Zero

C8_SentinelAsStated ==
    (returned /\ RLe(CashflowSum, Zero)) => projection.irr = R(-1)

\* C8 amended: whenever the five cash flows sum to <= 0 and
\* total_investment is > 0, the irr is exactly -1.0.
C8_SentinelPositiveInvestment ==
    (returned /\ RLe(CashflowSum, Zero) /\ RLt(Zero, projection.total_investment))
        => projection.irr = R(-1)

\* C8 witness: an investment that the benefits do not pay back
C8_Witness ==
    /\ returned
    /\ RLt(Zero, projection.total_investment)
    /\ RLt(Zero, projection.total_benefits)
    /\ RLt(CashflowSum, Zero)
    /\ projection.irr = R(-1)

\* C9: whenever total_investment is <= 0 the irr is exactly 0.0, also when
\* the cash flows sum to <= 0: the investment check comes first.
C9_NoInvestmentIrrZero ==
    (returned /\ RLe(projection.total_investment, Zero)) => projection.irr = Zero

\* C9 witness: no investment and cash flows that sum to less than 0
C9_Witness ==
    /\ returned
    /\ RLe(projection.total_investment, Zero)
    /\ RLt(CashflowSum, Zero)
    /\ projection.irr = Zero

\* C10: the irr lies in [-1, 1]; when total_investment > 0 and the cash
\* flows sum to > 0 it is (sum / total_investment)^(1/5) - 1 clamped to that
\* interval: 1 when the ratio is >= 2^5, and otherwise the multiple of
\* 1/IrrScale with (irr + 1)^5 <= ratio < (irr + 1 + 1/IrrScale)^5.
C10_IrrRange ==
    returned =>
        /\ RLe(R(-1), projection.irr)
        /\ RLe(projection.irr, One)
        /\ (RLt(Zero, projection.total_investment) /\ RLt(Zero, CashflowSum)) =>
              LET ratio == RDiv(CashflowSum, projection.total_investment)
                  root == RAdd(projection.irr, One)
              IN  IF RLe(R(32), ratio)
                  THEN projection.irr = One
                  ELSE /\ RLe(RPow(root, 5), ratio)
                       /\ RLt(ratio, RPow(RAdd(root, <<1, IrrScale>>), 5))

\* C10 witness: a return of more than 32 times the investment, clamped to 1
C10_Witness ==
    /\ returned
    /\ RLt(Zero, projection.total_investment)
    /\ RLt(R(32), RDiv(CashflowSum, projection.total_investment))
    /\ projection.irr = One

\* the discount rates > -1 a projection's NPV is compared at
ComparisonRates == { <<-1, 2>>, Zero, <<1, 10>>, <<1, 2>>, One }

SomePositiveYear == \E y \in Years : RLt(Zero, projection.yearly_cashflow[y])
NoNegativeYear == \A y \in Years : RLe(Zero, projection.yearly_cashflow[y])

\* at every greater comparison rate the NPV of the same cash flows is
\* strictly less than the projection's
NpvStrictlyDecreasing ==
    \A r2 \in ComparisonRates :
        RLt(discount_rate, r2) =>
            RLt(Npv(projection.yearly_cashflow, r2), projection.net_present_value)

\* C11 as stated: for discount rates r1 < r2, both > -1, the NPV at r2 is
\* strictly less than the NPV at r1, for every cash-flow series with at
\* least one positive-valued year.
C11_MonotoneAsStated ==
    (returned /\ RLt(R(-1), discount_rate) /\ SomePositiveYear)
        => NpvStrictlyDecreasing

\* C11 amended: for discount rates r1 < r2, both > -1, the NPV at r2 is
\* strictly less than the NPV at r1, for every cash-flow series with no
\* negative year and at least one positive-valued year.
C11_MonotoneNoNegativeYear ==
    (returned /\ RLt(R(-1), discount_rate) /\ SomePositiveYear /\ NoNegativeYear)
        => NpvStrictlyDecreasing

\* C11 witness: benefits in several years and no costs, projected at rate 0,
\* with a smaller NPV at 10%
C11_Witness ==
    /\ returned
    /\ discount_rate = Zero
    /\ NoNegativeYear
    /\ RLt(Zero, projection.yearly_cashflow[1])
    /\ RLt(Zero, projection.yearly_cashflow[5])
    /\ RLt(Npv(projection.yearly_cashflow, <<1, 10>>), projection.net_present_value)

\* C16: a projection requested with a discount rate <= -1 is rejected with
\* a ValueError before any computation; none is returned for such a rate.
C16_RejectsRateAtMostMinusOne ==
    (projection.kind # "none" /\ RLe(discount_rate, R(-1)))
        => projection = Raised("ValueError")

\* C20: the five yearly_cashflow entries of a returned projection sum to
\* total_benefits - total_investment.
C20_CashflowSumConsistent ==
    returned =>
        CashflowSum = RSub(projection.total_benefits, projection.total_investment)

\* C20 witness: a projection with ongoing costs, whose totals differ
C20_Witness ==
    /\ returned
    /\ \E k \in InvIndex : investments[k].ongoing_annual_cost # Zero
    /\ Len(benefits) >= 1
    /\ projection.total_benefits # projection.total_investment
    /\ CashflowSum # Zero

\* ------------------------------------------------------------------------
\* Properties of the helpers
\* ------------------------------------------------------------------------

\* the benefit of the examples: year_1 = 100, year_2 = 50
ExampleBenefit ==
    Benefit("revenue_growth", "Revenue growth",
            R(100), R(50), R(7), R(3), <<3, 4>>, <<4, 5>>)

\* C12: _adjust_investment and _adjust_benefit return an item whose year-1,
\* year-2, year-3 and ongoing fields are the input's times the factor and
\* whose category, description, confidence_level and
\* realization_probability are the input's; with factor 1.0 the output
\* equals the input in every field.
C12_AdjustScalesMoney ==
    LET in == helper.item
        out == helper.result
        f == helper.factor
    IN  /\ helper.op = "_adjust_investment" =>
              /\ out.year_1_cost = RMul(in.year_1_cost, f)
              /\ out.year_2_cost = RMul(in.year_2_cost, f)
              /\ out.year_3_cost = RMul(in.year_3_cost, f)
              /\ out.ongoing_annual_cost = RMul(in.ongoing_annual_cost, f)
              /\ out.category = in.category
              /\ out.description = in.description
              /\ out.confidence_level = in.confidence_level
              /\ DOMAIN out = DOMAIN in
              /\ f = One => out = in
        /\ helper.op = "_adjust_benefit" =>
              /\ out.year_1_value = RMul(in.year_1_value, f)
              /\ out.year_2_value = RMul(in.year_2_value, f)
              /\ out.year_3_value = RMul(in.year_3_value, f)
              /\ out.ongoing_annual_value = RMul(in.ongoing_annual_value, f)
              /\ out.category = in.category
              /\ out.description = in.description
              /\ out.confidence_level = in.confidence_level
              /\ out.realization_probability = in.realization_probability
              /\ DOMAIN out = DOMAIN in
              /\ f = One => out = in

\* C12 witness: an investment with a cost in every year scaled by 1.2
C12_Witness ==
    /\ helper.op = "_adjust_investment"
    /\ helper.factor = <<6, 5>>
    /\ helper.item.year_3_cost = R(30)
    /\ helper.result.year_3_cost = R(36)
    /\ helper.result.ongoing_annual_cost = R(6)
    /\ helper.result.confidence_level = <<17, 20>>

\* C13: for delay_months <= 6 the result's year_1_value is half the
\* original, its year_2_value is the original plus that same half, and
\* year_3_value, ongoing_annual_value, confidence_level and
\* realization_probability are unchanged; year_1 = 100, year_2 = 50 delayed
\* by 3 gives year_1 = 50, year_2 = 100.
C13_ShortDelay ==
    /\ DelayBenefit(ExampleBenefit, 3).year_1_value = R(50)
    /\ DelayBenefit(ExampleBenefit, 3).year_2_value = R(100)
    /\ (helper.op = "_delay_benefit" /\ helper.delay_months <= 6) =>
          LET in == helper.item
              out == helper.result
          IN  /\ RAdd(out.year_1_value, out.year_1_value) = in.year_1_value
              /\ RSub(out.year_2_value, in.year_2_value) = out.year_1_value
              /\ out.year_3_value = in.year_3_value
              /\ out.ongoing_annual_value = in.ongoing_annual_value
              /\ out.confidence_level = in.confidence_level
              /\ out.realization_probability = in.realization_probability

\* C13 witness: a delay of exactly 6 months of a benefit with a value in
\* year 1 and in year 2
C13_Witness ==
    /\ helper.op = "_delay_benefit"
    /\ helper.delay_months = 6
    /\ helper.item.year_1_value = R(10)
    /\ helper.item.year_2_value = R(20)
    /\ helper.result.year_1_value = R(5)
    /\ helper.result.year_2_value = R(25)

\* C14: for delay_months > 6 the result's year_1_value is 0, its
\* year_2_value is 70% of the original year 1, its year_3_value is the
\* original year 2 plus 30% of the original year 1, ongoing_annual_value is
\* unchanged, and confidence_level and realization_probability are each
\* multiplied by 0.9.
C14_LongDelay ==
    /\ DelayBenefit(ExampleBenefit, 9).year_1_value = Zero
    /\ DelayBenefit(ExampleBenefit, 9).year_2_value = R(70)
    /\ DelayBenefit(ExampleBenefit, 9).year_3_value = R(50 + 30)
    /\ (helper.op = "_delay_benefit" /\ helper.delay_months > 6) =>
          LET in == helper.item
              out == helper.result
          IN  /\ out.year_1_value = Zero
              /\ RMul(out.year_2_value, R(10)) = RMul(in.year_1_value, R(7))
              /\ RMul(RSub(out.year_3_value, in.year_2_value), R(10))
                    = RMul(in.year_1_value, R(3))
              /\ out.ongoing_annual_value = in.ongoing_annual_value
              /\ RMul(out.confidence_level, R(10)) = RMul(in.confidence_level, R(9))
              /\ RMul(out.realization_probability, R(10))
                    = RMul(in.realization_probability, R(9))

\* C14 witness: a delay of 7 months of a benefit with weights below 1
C14_Witness ==
    /\ helper.op = "_delay_benefit"
    /\ helper.delay_months = 7
    /\ helper.item.year_1_value = R(10)
    /\ helper.result.year_2_value = R(7)
    /\ helper.result.year_3_value = R(23)
    /\ helper.result.confidence_level = <<27, 40>>
    /\ helper.result.realization_probability = <<18, 25>>

\* ------------------------------------------------------------------------
\* Properties of the sensitivity analysis
\* ------------------------------------------------------------------------

\* the investments of the business case with every cost times f
ScaledInvestments(f) ==
    [k \in InvIndex |->
        [investments[k] EXCEPT !.year_1_cost = RMul(@, f),
                               !.year_2_cost = RMul(@, f),
                               !.year_3_cost = RMul(@, f),
                               !.ongoing_annual_cost = RMul(@, f)]]

\* the benefits of the business case with every value times f
ScaledBenefits(f) ==
    [k \in BenIndex |->
        [benefits[k] EXCEPT !.year_1_value = RMul(@, f),
                            !.year_2_value = RMul(@, f),
                            !.year_3_value = RMul(@, f),
                            !.ongoing_annual_value = RMul(@, f)]]

\* the reported case gives the NPV and ROI of scenario and their difference
\* from the stored projection
ReportsAgainstBase(case, scenario) ==
    /\ case.npv = scenario.net_present_value
    /\ case.roi = scenario.roi_percentage
    /\ case.npv_change = RSub(scenario.net_present_value, projection.net_present_value)
    /\ case.roi_change = RSub(scenario.roi_percentage, projection.roi_percentage)

\* C15: perform_sensitivity_analysis reports an optimistic case equal to the
\* projection of (every investment x0.9, every benefit x1.2) and a
\* pessimistic case equal to the projection of (every investment x1.15,
\* every benefit x0.8), and each npv_change / roi_change is that case's NPV /
\* ROI minus the NPV / ROI of the business case's stored projection.
C15_ScenarioCases ==
    sensitivity.kind = "returned" =>
        /\ ReportsAgainstBase(
               sensitivity.optimistic_case,
               CalculateFinancialProjection(ScaledInvestments(<<9, 10>>),
                                            ScaledBenefits(<<6, 5>>), discount_rate))
        /\ ReportsAgainstBase(
               sensitivity.pessimistic_case,
               CalculateFinancialProjection(ScaledInvestments(<<23, 20>>),
                                            ScaledBenefits(<<4, 5>>), discount_rate))

\* C15 witness: an analysis, made at a rate other than the one of the stored
\* projection, of a case with an investment and a benefit, whose optimistic
\* NPV is above and whose pessimistic NPV is below the stored one
C15_Witness ==
    /\ sensitivity.kind = "returned"
    /\ Len(investments) = 1
    /\ Len(benefits) = 1
    /\ projection # CalculateFinancialProjection(investments, benefits, discount_rate)
    /\ RLt(Zero, sensitivity.optimistic_case.npv_change)
    /\ RLt(sensitivity.pessimistic_case.npv_change, Zero)

\* a call of one of the five operations on the business case
Call ==
    \/ CaseProject
    \/ Analyse
    \/ \E k \in 1..MaxCaseItems, factor \in CaseFactors :
          CaseAdjustInvestment(k, factor)
    \/ \E k \in 1..MaxCaseItems, factor \in CaseFactors :
          CaseAdjustBenefit(k, factor)
    \/ \E k \in 1..MaxCaseItems, delay_months \in CaseDelays :
          CaseDelayBenefit(k, delay_months)

Lookups == {"assess_readiness", "generate_transformation_roadmap", "track_progress"}

\* C18: assess_readiness, generate_transformation_roadmap and track_progress
\* called with an id that is not a key of active_transformations raise
\* ValueError, return no result, and leave the registry and every registered
\* plan and organization profile unchanged.
C18_UnknownIdRaises ==
    [][(/\ result' # result
        /\ result'.op \in Lookups
        /\ result'.id \notin DOMAIN active_transformations)
       => /\ result'.outcome = Raised("ValueError")
          /\ active_transformations' = active_transformations
          /\ organizations' = organizations]_vars

\* C18 witness: track_progress raised for the id of a registered name at a
\* second in which nothing was registered, beside a registered and assessed
\* organization
C18_Witness ==
    /\ result.op = "track_progress"
    /\ result.id = <<"TechCorp", 1>>
    /\ result.outcome = Raised("ValueError")
    /\ DOMAIN active_transformations = { <<"TechCorp", 0>> }
    /\ organizations # OrganizationProfiles

\* the names, the durations and the activities of a roadmap, in order
PhaseNames(roadmap) == [k \in 1..Len(roadmap) |-> roadmap[k].name]
PhaseDurations(roadmap) == [k \in 1..Len(roadmap) |-> roadmap[k].duration_weeks]
PhaseActivities(roadmap) == [k \in 1..Len(roadmap) |-> roadmap[k].activities]

\* a roadmap was returned for a registered transformation
RoadmapReturned ==
    /\ result.op = "generate_transformation_roadmap"
    /\ result.outcome.kind = "returned"

\* C19: for every registered transformation, whatever the organization's
\* industry, size and maturity, generate_transformation_roadmap returns the
\* same four phases in the same order (phase_1_foundation, phase_2_pilots,
\* phase_3_scaling, phase_4_maturity) with durations 4, 8, 10 and 6 weeks
\* and the same activities.
C19_SameFourPhases ==
    /\ \A id \in DOMAIN active_transformations :
          GenerateTransformationRoadmap(active_transformations, organizations, id).kind
              = "returned"
    /\ RoadmapReturned =>
          LET roadmap == result.outcome.value
          IN  /\ PhaseNames(roadmap) = <<"phase_1_foundation", "phase_2_pilots",
                                         "phase_3_scaling", "phase_4_maturity">>
              /\ PhaseDurations(roadmap) = <<4, 8, 10, 6>>
              /\ \A k \in 1..4 : Len(roadmap[k].activities) = 5
              /\ roadmap[1].activities[1] = "Stakeholder alignment and buy-in"
              /\ roadmap[4].activities[5] = "Competitive advantage realization"
              /\ \A id \in DOMAIN active_transformations :
                    PhaseActivities(roadmap) =
                        PhaseActivities(GenerateTransformationRoadmap(
                            active_transformations, organizations, id).value)

\* C19 witness: the roadmap of the organization without an industry template
\* while an AI-native retail organization is registered too
C19_Witness ==
    /\ RoadmapReturned
    /\ result.id = <<"Acme", 0>>
    /\ <<"TechCorp", 0>> \in DOMAIN active_transformations
    /\ active_transformations[<<"TechCorp", 0>>].organization = "b"
    /\ active_transformations[<<"Acme", 0>>].timeline_weeks = 36

\* track_progress returned a progress dictionary
ProgressReturned ==
    /\ result.op = "track_progress"
    /\ result.outcome.kind = "returned"

\* C21: in every state reachable through initialize_transformation,
\* assess_readiness, generate_transformation_roadmap and track_progress,
\* every registered plan's current_phase is FOUNDATION, so track_progress
\* always reports current_phase 'foundation' and completion_percentage 20.0.
C21_AlwaysFoundation ==
    /\ \A id \in DOMAIN active_transformations :
          active_transformations[id].current_phase = "foundation"
    /\ ProgressReturned =>
          /\ result.outcome.value.current_phase = "foundation"
          /\ result.outcome.value.completion_percentage = R(20)

\* C21 witness: progress reported, after an assessment and at a later tick,
\* for one of two registered transformations
C21_Witness ==
    /\ ProgressReturned
    /\ now > 0
    /\ Cardinality(DOMAIN active_transformations) >= 2
    /\ organizations # OrganizationProfiles
    /\ result.outcome.value.completion_percentage = R(20)

\* ------------------------------------------------------------------------
\* Further properties of the projection
\* ------------------------------------------------------------------------

\* C24: payback_period_months of every returned projection is one of 12, 24,
\* 36, 48, 60; a projection whose cash flows are all 0 (e.g. empty inputs)
\* has payback 12, and the value 60 is returned both when payback is reached
\* in year 5 and when it is never reached.
C24_PaybackValues ==
    /\ PaybackMonths(<<R(-100), Zero, Zero, R(50), R(50)>>) = 60
    /\ PaybackMonths(<<R(-100), Zero, Zero, Zero, Zero>>) = 60
    /\ returned =>
          /\ projection.payback_period_months \in {12, 24, 36, 48, 60}
          /\ (\A y \in Years : projection.yearly_cashflow[y] = Zero)
                => projection.payback_period_months = 12
          /\ (\A y \in 1..4 : RLt(Cumulative(y), Zero))
                => projection.payback_period_months = 60
          /\ (investments = <<>> /\ benefits = <<>>)
                => projection.payback_period_months = 12

\* C24 witness: a payback of 60 months that is reached in year 5
C24_Witness ==
    /\ returned
    /\ projection.payback_period_months = 60
    /\ RLt(Cumulative(4), Zero)
    /\ RLe(Zero, Cumulative(5))

\* ------------------------------------------------------------------------
\* Further properties of the helpers
\* ------------------------------------------------------------------------

\* year_1_value + year_2_value + year_3_value of a benefit
ThreeYearSum(benefit) ==
    RAdd(RAdd(benefit.year_1_value, benefit.year_2_value), benefit.year_3_value)

HalfShiftedBenefits ==
    [k \in BenIndex |->
        [benefits[k] EXCEPT
            !.year_1_value = RMul(benefits[k].year_1_value, <<1, 2>>),
            !.year_2_value = RAdd(benefits[k].year_2_value,
                                  RMul(benefits[k].year_1_value, <<1, 2>>))]]

\* the impacts of the 'Timeline Delay' sweep, in the order of the test values
TimelineImpacts == sensitivity.variable_impact.timeline_delay

\* C26: in the 'Timeline Delay' sweep of perform_sensitivity_analysis the
\* test values 0, 3 and 6 months produce identical npv_impact and identical
\* roi_impact, a delay of 0 months applying the same half-of-year-1 shift as
\* 3 and 6; the impact at test value 0 is zero only when that shift leaves
\* the NPV unchanged.
C26_ShortDelaysAlike ==
    sensitivity.kind = "returned" =>
        /\ <<TimelineImpacts[1].test_value, TimelineImpacts[2].test_value,
             TimelineImpacts[3].test_value>> = <<0, 3, 6>>
        /\ TimelineImpacts[1].npv_impact = TimelineImpacts[2].npv_impact
        /\ TimelineImpacts[2].npv_impact = TimelineImpacts[3].npv_impact
        /\ TimelineImpacts[1].roi_impact = TimelineImpacts[2].roi_impact
        /\ TimelineImpacts[2].roi_impact = TimelineImpacts[3].roi_impact
        /\ TimelineImpacts[1].npv_impact = Zero <=>
              CalculateFinancialProjection(investments, HalfShiftedBenefits,
                                           discount_rate).net_present_value
                  = projection.net_present_value

\* C26 witness: at a rate of 10% the delay of 0 months costs a case with a
\* year-1 benefit NPV against its own projection, as 3 and 6 months do
C26_Witness ==
    /\ sensitivity.kind = "returned"
    /\ Len(benefits) = 1
    /\ discount_rate = <<1, 10>>
    /\ projection = CalculateFinancialProjection(investments, benefits, discount_rate)
    /\ RLt(TimelineImpacts[1].npv_impact, Zero)
    /\ TimelineImpacts[3].npv_impact = TimelineImpacts[1].npv_impact
    /\ TimelineImpacts[4].npv_impact # TimelineImpacts[1].npv_impact

\* every monetary field and every weight of the business case is >= 0
NonNegativeCase ==
    /\ \A k \in InvIndex :
          /\ RLe(Zero, investments[k].year_1_cost)
          /\ RLe(Zero, investments[k].year_2_cost)
          /\ RLe(Zero, investments[k].year_3_cost)
          /\ RLe(Zero, investments[k].ongoing_annual_cost)
    /\ \A k \in BenIndex :
          /\ RLe(Zero, benefits[k].year_1_value)
          /\ RLe(Zero, benefits[k].year_2_value)
          /\ RLe(Zero, benefits[k].year_3_value)
          /\ RLe(Zero, benefits[k].ongoing_annual_value)
          /\ RLe(Zero, benefits[k].confidence_level)
          /\ RLe(Zero, benefits[k].realization_probability)

\* the optimistic case is no worse and the pessimistic case no better than
\* the stored projection
ScenarioSigns ==
    /\ RLe(Zero, sensitivity.optimistic_case.npv_change)
    /\ RLe(Zero, sensitivity.optimistic_case.roi_change)
    /\ RLe(sensitivity.pessimistic_case.npv_change, Zero)
    /\ RLe(sensitivity.pessimistic_case.roi_change, Zero)

\* the stored projection is the one of the lists at the rate `rate`
StoredAt(rate) ==
    projection = CalculateFinancialProjection(investments, benefits, rate)

\* C27 as stated: for a business case with only non-negative monetary fields
\* whose stored projection was computed from them at some discount rate
\* > -1, the analysis reports optimistic changes >= 0 and pessimistic
\* changes <= 0.
C27_SignsAsStated ==
    (/\ sensitivity.kind = "returned"
     /\ NonNegativeCase
     /\ \E rate \in CaseRates : RLt(R(-1), rate) /\ StoredAt(rate))
    => ScenarioSigns

\* C27 amended: for a business case with only non-negative monetary fields
\* and weights whose stored projection was computed from them at the discount
\* rate the generator has when the analysis runs, that rate being > -1, the
\* analysis reports optimistic npv_change >= 0 and roi_change >= 0, and
\* pessimistic npv_change <= 0 and roi_change <= 0.
C27_SignsAtSameRate ==
    (/\ sensitivity.kind = "returned"
     /\ NonNegativeCase
     /\ RLt(R(-1), discount_rate)
     /\ StoredAt(discount_rate))
    => ScenarioSigns

\* C27 witness: an analysis at the rate of the stored projection with a
\* strictly better optimistic and a strictly worse pessimistic case
C27_Witness ==
    /\ sensitivity.kind = "returned"
    /\ Len(investments) = 1
    /\ Len(benefits) = 1
    /\ StoredAt(discount_rate)
    /\ RLt(Zero, sensitivity.optimistic_case.roi_change)
    /\ RLt(sensitivity.pessimistic_case.npv_change, Zero)
    /\ RLt(sensitivity.pessimistic_case.roi_change, Zero)

\* ------------------------------------------------------------------------
\* Further properties of the orchestrator
\* ------------------------------------------------------------------------

\* C29: after any sequence of initialize_transformation calls, every id
\* returned by an earlier call is still a key of active_transformations and
\* still maps to the plan built from the organization passed to that call:
\* no call replaces or removes an existing plan.
C29_NoPlanReplaced ==
    [][\A id \in DOMAIN active_transformations :
          /\ id \in DOMAIN active_transformations'
          /\ active_transformations'[id] = active_transformations[id]]_vars

\* the three risks, in the order they are reported
StakeholderRisk == "Low stakeholder alignment may slow progress"
ChangeRisk == "Organization may resist cultural changes"
TechnicalRisk == "Technical infrastructure gaps may cause delays"

\* the profile object of the transformation id
ProfileOf(id) == active_transformations[id].organization

\* this step is a call of op that returned
ReturnsFrom(op) ==
    /\ result' # result
    /\ result'.op = op
    /\ result'.outcome.kind = "returned"

\* C30: the risks reported by track_progress depend on whether
\* assess_readiness ran earlier on the same organization profile: for a
\* profile created with default scores, track_progress before any
\* assess_readiness reports all three risks, and after assess_readiness it
\* reports exactly the stakeholder-alignment and change-resistance risks and
\* never the technical-infrastructure risk; assess_readiness stores exactly
\* the four scores it returns in the profile.
C30_RisksFollowAssessment ==
    [][/\ ReturnsFrom("track_progress") =>
             IF organizations[ProfileOf(result'.id)]
                    = OrganizationProfiles[ProfileOf(result'.id)]
             THEN result'.outcome.value.risks
                      = <<StakeholderRisk, ChangeRisk, TechnicalRisk>>
             ELSE result'.outcome.value.risks = <<StakeholderRisk, ChangeRisk>>
       /\ ReturnsFrom("assess_readiness") =>
             LET o == ProfileOf(result'.id)
                 scores == result'.outcome.value
             IN  /\ DOMAIN scores = {"ai_readiness", "stakeholder_alignment",
                                      "change_readiness", "technical_readiness"}
                 /\ organizations'[o] =
                       [OrganizationProfiles[o] EXCEPT
                           !.ai_readiness_score = scores.ai_readiness,
                           !.stakeholder_alignment_score = scores.stakeholder_alignment,
                           !.change_readiness_score = scores.change_readiness,
                           !.technical_readiness_score = scores.technical_readiness]
                 /\ \A other \in DOMAIN organizations \ {o} :
                       organizations'[other] = organizations[other]]_vars

\* C30 witness: two risks reported through the id of second 1 for a profile
\* that is registered under the id of second 0 too and has been assessed
C30_Witness ==
    /\ ProgressReturned
    /\ result.id = <<"Acme", 1>>
    /\ DOMAIN active_transformations = { <<"Acme", 0>>, <<"Acme", 1>> }
    /\ organizations["c"] # OrganizationProfiles["c"]
    /\ result.outcome.value.risks = <<StakeholderRisk, ChangeRisk>>

\* ------------------------------------------------------------------------
\* Properties of the approval recommendation
\* ------------------------------------------------------------------------

\* the latest call was of _generate_approval_recommendation
Recommended == helper.op = "_generate_approval_recommendation"

\* C23: _generate_approval_recommendation returns 'STRONGLY RECOMMEND
\* APPROVAL' exactly when roi_percentage > 30 and payback_period_months <=
\* 24, otherwise 'RECOMMEND APPROVAL' exactly when roi_percentage > 15 and
\* payback_period_months <= 36, otherwise 'CONDITIONAL APPROVAL WITH RISK
\* MITIGATION'; the risk note is appended exactly when at least one risk has
\* impact >= 3 and probability > 0.5.
C23_ApprovalThresholds ==
    Recommended =>
        LET strongly == /\ RLt(R(30), helper.roi_percentage)
                        /\ helper.payback_period_months <= 24
            plainly == /\ ~strongly
                       /\ RLt(R(15), helper.roi_percentage)
                       /\ helper.payback_period_months <= 36
            noted == \E k \in 1..Len(helper.risks) :
                        /\ RiskLevel[helper.risks[k].impact] >= 3
                        /\ RLt(<<1, 2>>, helper.risks[k].probability)
        IN  /\ helper.result[1] = "STRONGLY RECOMMEND APPROVAL" <=> strongly
            /\ helper.result[1] = "RECOMMEND APPROVAL" <=> plainly
            /\ helper.result[1] = "CONDITIONAL APPROVAL WITH RISK MITIGATION"
                  <=> ~strongly /\ ~plainly
            /\ helper.result[2] = "."
            /\ Len(helper.result) > 2 <=> noted

\* C23 witness: an ROI of exactly 30% with payback 24 is recommended, not
\* strongly, and of a high risk at probability 0.5 and a medium risk at 0.6
\* neither earns a note
C23_Witness ==
    /\ Recommended
    /\ helper.roi_percentage = R(30)
    /\ helper.payback_period_months = 24
    /\ Len(helper.risks) = 2
    /\ helper.risks[1].impact = "HIGH"
    /\ helper.risks[1].probability = <<1, 2>>
    /\ helper.risks[2].impact = "MEDIUM"
    /\ helper.risks[2].probability = <<3, 5>>
    /\ helper.result = <<"RECOMMEND APPROVAL", ".">>

\* ------------------------------------------------------------------------
\* Properties of the generated investments
\* ------------------------------------------------------------------------

\* the year-1 + year-2 + year-3 costs of all investments of a list
ThreeYearCosts(invs) ==
    RSum([k \in 1..Len(invs) |->
            RAdd(RAdd(invs[k].year_1_cost, invs[k].year_2_cost), invs[k].year_3_cost)])

\* C28: for every industry and every organization size, the investments
\* returned by _generate_investments for a positive budget have year-1 +
\* year-2 + year-3 costs summing to at most investment_budget.
C28_WithinBudget ==
    (helper.op = "_generate_investments" /\ RLt(Zero, helper.budget))
    => RLe(ThreeYearCosts(helper.result), helper.budget)

\* ------------------------------------------------------------------------
\* Properties of the priority recommendations
\* ------------------------------------------------------------------------

\* the recommendations a dimension contributes: its first two
Contributed(assessment) == Take(assessment.recommendations, 2)

\* the positions of the returned list that hold a recommendation of the
\* assessment
PositionsOf(assessment) ==
    {p \in 1..Len(helper.result) :
        \E q \in 1..Len(Contributed(assessment)) :
            helper.result[p] = Contributed(assessment)[q]}

\* every contributed recommendation of the assessment is in the returned list
AllKept(assessment) ==
    \A q \in 1..Len(Contributed(assessment)) :
        \E p \in 1..Len(helper.result) :
            helper.result[p] = Contributed(assessment)[q]

\* C22: in the list returned by _generate_priority_recommendations the
\* recommendations of the dimensions of priority "high" come before those
\* of the dimensions of priority "medium", and the cut to the first 8
\* entries never drops a recommendation of a high-priority dimension while
\* it keeps one of a medium-priority dimension.
C22_HighBeforeMedium ==
    helper.op = "_generate_priority_recommendations"
    => \A i, j \in 1..Len(helper.assessments) :
         LET high == helper.assessments[i]
             medium == helper.assessments[j]
         IN  (high.priority = "high" /\ medium.priority = "medium")
             => /\ \A p \in PositionsOf(high), q \in PositionsOf(medium) :
                       helper.result[p] # helper.result[q] => p < q
                /\ PositionsOf(medium) # {} => AllKept(high)

====
